---------------------------- MODULE Spec2Model ----------------------------
(***************************************************************************)
(* rocket-config: the Value model, the lazily loaded file-backed           *)
(* Configuration cache and the Factory registry with its directory scan.   *)
(*                                                                         *)
(* The file system, the JSON and YAML parsers and the build mode are the   *)
(* environment; every public operation of Configuration and Factory is one *)
(* action, and the outcome of the last call is recorded in `last`.         *)
(***************************************************************************)
EXTENDS Integers, Sequences, FiniteSets, TLC

(***************************************************************************)
(* Bounds of the model.                                                    *)
(***************************************************************************)
\* Number of Configuration cells (Arc-shared caches) ever allocated.
MaxCells == 2
\* Number of Configurations the caller creates itself (Configuration::new).
MaxNew == 1
\* Number of changes the environment makes to the file system.
MaxFsChanges == 1
\* Number of threads that call concurrently, and of calls each one makes.
MaxThreads == 2
MaxCalls == 1

(***************************************************************************)
(* Value (value/value.rs) and Number (value/number.rs).                    *)
(* Every Value is a record with the same fields, the unused ones holding   *)
(* defaults: t is the variant, b the Bool payload, n the Number payload,   *)
(* s the String payload, kids the Array elements or the Object values and  *)
(* keys the Object keys (parallel to kids, ascending, as in a BTreeMap).   *)
(***************************************************************************)
\* An f64: finite, with a sign, a whole part and one decimal digit, or one
\* of the two infinities, or NaN.  Tenths(57) is 5.7, Tenths(-15) is -1.5.
Finite(neg, whole, tenth) ==
    [c |-> "finite", neg |-> neg, whole |-> whole, tenth |-> tenth]

Tenths(t) ==
    IF t < 0 THEN Finite(TRUE, (0 - t) \div 10, (0 - t) % 10)
    ELSE Finite(FALSE, t \div 10, t % 10)

Infinity == [c |-> "inf", neg |-> FALSE, whole |-> 0, tenth |-> 0]

NegInfinity == [c |-> "inf", neg |-> TRUE, whole |-> 0, tenth |-> 0]

NaN == [c |-> "nan", neg |-> FALSE, whole |-> 0, tenth |-> 0]

f64_is_finite(f) == f.c = "finite"

\* N: k is the variant, v the payload of PosInt and NegInt, f the payload
\* of Float.
NoNumber == [k |-> "-", v |-> 0, f |-> Tenths(0)]

PosInt(u) == [k |-> "PosInt", v |-> u, f |-> Tenths(0)]

NegInt(i) == [k |-> "NegInt", v |-> i, f |-> Tenths(0)]

Float(f) == [k |-> "Float", v |-> 0, f |-> f]

Null == [t |-> "Null", b |-> FALSE, n |-> NoNumber, s |-> "",
         keys |-> <<>>, kids |-> <<>>]

Bool(x) == [Null EXCEPT !.t = "Bool", !.b = x]

Number(x) == [Null EXCEPT !.t = "Number", !.n = x]

String(x) == [Null EXCEPT !.t = "String", !.s = x]

Array(xs) == [Null EXCEPT !.t = "Array", !.kids = xs]

Object(ks, xs) == [Null EXCEPT !.t = "Object", !.keys = ks, !.kids = xs]

\* Option<Value>
None == [some |-> FALSE, val |-> Null]

Some(v) == [some |-> TRUE, val |-> v]

(***************************************************************************)
(* Number (value/number.rs): the predicates, the accessors, from_f64 and   *)
(* the order.  An Option of an integer or of an f64 is a record.           *)
(***************************************************************************)
\* The integer widths, halved to fit TLC's integers: u64 is 0..2^31 - 1 and
\* i64 is -2^30..2^30 - 1, so that u64 values above i64::max_value() exist.
U64Max == 2147483647

I64Max == 1073741823

I64Min == -1073741824

NoInt == [some |-> FALSE, v |-> 0]

SomeInt(v) == [some |-> TRUE, v |-> v]

NoF64 == [some |-> FALSE, f |-> Tenths(0)]

SomeF64(f) == [some |-> TRUE, f |-> f]

NoN == [some |-> FALSE, n |-> NoNumber]

SomeN(n) == [some |-> TRUE, n |-> n]

\* Number::is_i64
is_i64(n) ==
    CASE n.k = "PosInt" -> n.v <= I64Max
      [] n.k = "NegInt" -> TRUE
      [] OTHER -> FALSE

\* Number::is_u64
is_u64(n) == n.k = "PosInt"

\* Number::is_f64
is_f64(n) == n.k = "Float"

\* Number::as_i64
as_i64(n) ==
    CASE n.k = "PosInt" -> IF n.v <= I64Max THEN SomeInt(n.v) ELSE NoInt
      [] n.k = "NegInt" -> SomeInt(n.v)
      [] OTHER -> NoInt

\* Number::as_u64
as_u64(n) == IF n.k = "PosInt" THEN SomeInt(n.v) ELSE NoInt

\* Number::as_f64 (n as f64 is exact on the integers of the model)
as_f64(n) ==
    CASE n.k = "PosInt" -> SomeF64(Finite(FALSE, n.v, 0))
      [] n.k = "NegInt" -> SomeF64(Finite(TRUE, 0 - n.v, 0))
      [] OTHER -> SomeF64(n.f)

\* Number::from_f64
from_f64(f) == IF f64_is_finite(f) THEN SomeN(Float(f)) ELSE NoN

\* Value::is_i64 ... Value::as_f64
Value_is_i64(v) == IF v.t = "Number" THEN is_i64(v.n) ELSE FALSE

Value_is_u64(v) == IF v.t = "Number" THEN is_u64(v.n) ELSE FALSE

Value_is_f64(v) == IF v.t = "Number" THEN is_f64(v.n) ELSE FALSE

Value_as_i64(v) == IF v.t = "Number" THEN as_i64(v.n) ELSE NoInt

Value_as_u64(v) == IF v.t = "Number" THEN as_u64(v.n) ELSE NoInt

Value_as_f64(v) == IF v.t = "Number" THEN as_f64(v.n) ELSE NoF64

\* A text is the sequence of its bytes: "-" is 45, "." is 46, "0" is 48,
\* "e" is 101.  The decimal digits of a natural number:
RECURSIVE digits(_)
digits(n) ==
    IF n < 10 THEN <<48 + n>>
    ELSE Append(digits(n \div 10), 48 + (n % 10))

\* The digits ds without their trailing zeros, the first digit kept.
RECURSIVE significant(_)
significant(ds) ==
    IF Len(ds) > 1 /\ ds[Len(ds)] = 48
    THEN significant(SubSeq(ds, 1, Len(ds) - 1))
    ELSE ds

\* format!("{:e}", f): "5.7e0", "-1.5e0", "5e-1", "1e2", "inf", "NaN".
\* ds are the digits a finite f64 is written with, from its first non-zero
\* one, and e is its decimal exponent.
lower_exp(f) ==
    LET sign == IF f.neg THEN <<45>> ELSE <<>>
        ds == IF f.whole = 0 THEN <<48 + f.tenth>>
              ELSE significant(Append(digits(f.whole), 48 + f.tenth))
        e == IF f.whole = 0 THEN (IF f.tenth = 0 THEN 0 ELSE 0 - 1)
             ELSE Len(digits(f.whole)) - 1
        mantissa == IF Len(ds) = 1 THEN ds ELSE <<ds[1], 46>> \o Tail(ds)
        exponent == IF e < 0 THEN <<45>> \o digits(0 - e) ELSE digits(e)
    IN CASE f.c = "nan" -> <<78, 97, 78>>
         [] f.c = "inf" -> sign \o <<105, 110, 102>>
         [] OTHER -> sign \o mantissa \o <<101>> \o exponent

\* Ord::cmp of u64 and of i64, and of String (bytewise)
int_cmp(a, b) ==
    IF a < b THEN "Less" ELSE IF a = b THEN "Equal" ELSE "Greater"

RECURSIVE str_cmp(_, _)
str_cmp(a, b) ==
    IF a = <<>> THEN (IF b = <<>> THEN "Equal" ELSE "Less")
    ELSE IF b = <<>> THEN "Greater"
    ELSE IF a[1] # b[1] THEN int_cmp(a[1], b[1])
    ELSE str_cmp(Tail(a), Tail(b))

\* The order of the variants as declared, which the derived PartialOrd
\* follows: PosInt before NegInt before Float.
N_cmp_declared(self, other) ==
    CASE self.k = other.k /\ self.k = "Float" ->
            str_cmp(lower_exp(self.f), lower_exp(other.f))
      [] self.k = other.k -> int_cmp(self.v, other.v)
      [] self.k = "PosInt" -> "Less"
      [] self.k = "Float" -> "Greater"
      [] OTHER -> IF other.k = "PosInt" THEN "Greater" ELSE "Less"

\* impl Ord for N
N_cmp(self, other) ==
    CASE self.k = "PosInt" /\ other.k = "PosInt" -> int_cmp(self.v, other.v)
      [] self.k = "PosInt" /\ other.k = "NegInt" -> "Greater"
      [] self.k = "PosInt" /\ other.k = "Float" -> "Greater"
      [] self.k = "NegInt" /\ other.k = "NegInt" -> int_cmp(self.v, other.v)
      [] self.k = "NegInt" /\ other.k = "PosInt" -> "Less"
      [] self.k = "NegInt" /\ other.k = "Float" -> "Greater"
      [] self.k = "Float" /\ other.k = "Float" ->
            str_cmp(lower_exp(self.f), lower_exp(other.f))
      [] self.k = "Float" /\ other.k = "PosInt" -> "Less"
      [] self.k = "Float" /\ other.k = "NegInt" -> "Less"

\* impl Ord for Number
Number_cmp(self, other) == N_cmp(self, other)

\* #[derive(PartialOrd)] for N, which Number's derive passes on to: the
\* variants in the order they are declared (PosInt, NegInt, Float), and
\* within one variant the payloads, u64 and i64 by Ord and f64 by its
\* partial_cmp (numeric, and None when either side is NaN).
N_partial_cmp(self, other) ==
    LET discriminant(n) ==
            CASE n.k = "PosInt" -> 0 [] n.k = "NegInt" -> 1 [] OTHER -> 2
        tenths(f) == IF f.neg THEN 0 - (10 * f.whole + f.tenth)
                     ELSE 10 * f.whole + f.tenth
        rank(f) == IF f.c = "inf" THEN (IF f.neg THEN 0 ELSE 2) ELSE 1
        f64_partial_cmp(f, g) ==
            IF f.c = "nan" \/ g.c = "nan" THEN [some |-> FALSE, ord |-> "Equal"]
            ELSE IF rank(f) # rank(g) \/ rank(f) # 1
            THEN [some |-> TRUE, ord |-> int_cmp(rank(f), rank(g))]
            ELSE [some |-> TRUE, ord |-> int_cmp(tenths(f), tenths(g))]
    IN IF discriminant(self) # discriminant(other)
       THEN [some |-> TRUE,
             ord |-> int_cmp(discriminant(self), discriminant(other))]
       ELSE IF self.k = "Float" THEN f64_partial_cmp(self.f, other.f)
       ELSE [some |-> TRUE, ord |-> int_cmp(self.v, other.v)]

(***************************************************************************)
(* String order of the keys used by the documents of the model: Rust       *)
(* compares String keys bytewise, which on these keys is the order below.  *)
(***************************************************************************)
KeyOrder == <<"diesel", "env(DATABASE_URL)", "limit_id", "parameters">>

KeyLess(a, b) ==
    \E i, j \in 1..Len(KeyOrder) :
        KeyOrder[i] = a /\ KeyOrder[j] = b /\ i < j

\* Position of key k in the key sequence ks, 0 when absent.
KeyPos(ks, k) ==
    IF \E i \in 1..Len(ks) : ks[i] = k
    THEN CHOOSE i \in 1..Len(ks) : ks[i] = k
    ELSE 0

\* An insert that appends a new key instead of placing it in key order.
MapInsert_appending(m, k, x) ==
    IF KeyPos(m.keys, k) > 0
    THEN [keys |-> m.keys, kids |-> [m.kids EXCEPT ![KeyPos(m.keys, k)] = x]]
    ELSE [keys |-> Append(m.keys, k), kids |-> Append(m.kids, x)]

\* BTreeMap::insert on the map (ks, xs): replaces the value of an existing
\* key, otherwise inserts at the place the key order gives.
MapInsert(m, k, x) ==
    LET p == KeyPos(m.keys, k)
        lo == Cardinality({i \in 1..Len(m.keys) : KeyLess(m.keys[i], k)})
    IN IF p > 0
       THEN [keys |-> m.keys, kids |-> [m.kids EXCEPT ![p] = x]]
       ELSE [keys |-> SubSeq(m.keys, 1, lo) \o <<k>>
                        \o SubSeq(m.keys, lo + 1, Len(m.keys)),
             kids |-> SubSeq(m.kids, 1, lo) \o <<x>>
                        \o SubSeq(m.kids, lo + 1, Len(m.kids))]

EmptyMap == [keys |-> <<>>, kids |-> <<>>]

(***************************************************************************)
(* Index (value/index.rs): a string index selects an Object entry by key,  *)
(* an integer index selects an Array element by position (from 0); any     *)
(* other combination, an absent key or an out-of-range position is None.   *)
(***************************************************************************)
StrIndex(k) == [kind |-> "str", key |-> k, pos |-> 0]

IntIndex(i) == [kind |-> "int", key |-> "", pos |-> i]

index_into(index, v) ==
    IF index.kind = "str"
    THEN IF v.t = "Object" /\ KeyPos(v.keys, index.key) > 0
         THEN Some(v.kids[KeyPos(v.keys, index.key)])
         ELSE None
    ELSE IF v.t = "Array" /\ index.pos < Len(v.kids)
         THEN Some(v.kids[index.pos + 1])
         ELSE None

\* Value::get
Value_get(v, index) == index_into(index, v)

(***************************************************************************)
(* Parse trees of the external parsers.  A serde_json::Value or a          *)
(* serde_yaml::Value is a record of the same shape as Value; its t is the  *)
(* parser's variant, its n the parser's number (classified by the parser   *)
(* as PosInt, NegInt or Float).  The keys of a JSON Object are strings, in *)
(* the iteration order of its map; the keys of a YAML Mapping are YAML     *)
(* nodes, in document order.                                               *)
(***************************************************************************)
\* The result of a conversion: a Value, or a panic (unimplemented!()).
Converted(v) == [panic |-> FALSE, val |-> v]

Panicked == [panic |-> TRUE, val |-> Null]

\* impl From<&serde_json::Number> for Number, impl From<&serde_yaml::Number>
\* for Number: the first arm whose guard (the parser's is_u64, is_i64 or
\* is_f64) holds.
Number_from(n) ==
    LET lib_is_u64 == n.k = "PosInt"
        lib_is_i64 == n.k = "NegInt" \/ (n.k = "PosInt" /\ n.v <= I64Max)
        lib_is_f64 == n.k = "Float"
    IN IF lib_is_u64 THEN Converted(Number(PosInt(n.v)))
       ELSE IF lib_is_i64 THEN Converted(Number(NegInt(n.v)))
       ELSE IF lib_is_f64 THEN Converted(Number(Float(n.f)))
       ELSE Panicked

\* What a converted Array or Object is made of: the elements, or a panic.
array_of(r) == IF r.panic THEN Panicked ELSE Converted(Array(r.kids))

object_of(r) ==
    IF r.panic THEN Panicked ELSE Converted(Object(r.map.keys, r.map.kids))

\* Vec: the element head before the elements rest.
cons(head, rest) ==
    IF head.panic \/ rest.panic
    THEN [panic |-> TRUE, kids |-> <<>>]
    ELSE [panic |-> FALSE, kids |-> <<head.val>> \o rest.kids]

RECURSIVE Value_from_json(_)
RECURSIVE json_array(_, _)
RECURSIVE json_object(_, _, _)
RECURSIVE json_entry(_, _, _, _)

\* json.iter().map(Self::from).collect::<Vec<_>>()
json_array(xs, i) ==
    IF i > Len(xs) THEN [panic |-> FALSE, kids |-> <<>>]
    ELSE cons(Value_from_json(xs[i]), json_array(xs, i + 1))

\* json.iter().map(|(key, each)| ..).collect::<BTreeMap<_, _>>(): the
\* entries are inserted one after the other into the map m.
json_object(j, i, m) ==
    IF i > Len(j.keys) THEN [panic |-> FALSE, map |-> m]
    ELSE json_entry(j, i, m, Value_from_json(j.kids[i]))

json_entry(j, i, m, each) ==
    IF each.panic THEN [panic |-> TRUE, map |-> m]
    ELSE json_object(j, i + 1, MapInsert(m, j.keys[i], each.val))

\* impl From<&serde_json::Value> for Value
Value_from_json(j) ==
    CASE j.t = "Null" -> Converted(Null)
      [] j.t = "String" -> Converted(String(j.s))
      [] j.t = "Bool" -> Converted(Bool(j.b))
      [] j.t = "Number" -> Number_from(j.n)
      [] j.t = "Array" -> array_of(json_array(j.kids, 1))
      [] j.t = "Object" -> object_of(json_object(j, 1, EmptyMap))

RECURSIVE Value_from_yaml(_)
RECURSIVE yaml_sequence(_, _)
RECURSIVE yaml_mapping(_, _, _)
RECURSIVE yaml_entry(_, _, _, _)

\* yaml_mapping dropping an entry whose key is not a string.
yaml_mapping_dropping(y, i, m) ==
    IF i > Len(y.keys) THEN [panic |-> FALSE, map |-> m]
    ELSE IF y.keys[i].t # "String" THEN yaml_mapping(y, i + 1, m)
    ELSE yaml_entry(y, i, m, Value_from_yaml(y.kids[i]))

yaml_sequence(xs, i) ==
    IF i > Len(xs) THEN [panic |-> FALSE, kids |-> <<>>]
    ELSE cons(Value_from_yaml(xs[i]), yaml_sequence(xs, i + 1))

\* yaml.iter().map(|(key, each)| ..).collect::<BTreeMap<_, _>>(): a key
\* that is not a string is unimplemented!().
yaml_mapping(y, i, m) ==
    IF i > Len(y.keys) THEN [panic |-> FALSE, map |-> m]
    ELSE IF y.keys[i].t # "String" THEN [panic |-> TRUE, map |-> m]
    ELSE yaml_entry(y, i, m, Value_from_yaml(y.kids[i]))

yaml_entry(y, i, m, each) ==
    IF each.panic THEN [panic |-> TRUE, map |-> m]
    ELSE yaml_mapping(y, i + 1, MapInsert(m, y.keys[i].s, each.val))

\* impl From<&serde_yaml::Value> for Value
Value_from_yaml(y) ==
    CASE y.t = "Null" -> Converted(Null)
      [] y.t = "String" -> Converted(String(y.s))
      [] y.t = "Bool" -> Converted(Bool(y.b))
      [] y.t = "Number" -> Number_from(y.n)
      [] y.t = "Sequence" -> array_of(yaml_sequence(y.kids, 1))
      [] y.t = "Mapping" -> object_of(yaml_mapping(y, 1, EmptyMap))

(***************************************************************************)
(* File contents and what the parsers make of them.                        *)
(*   "json_obj"    {"parameters": {"env(DATABASE_URL)": "",                *)
(*                  "limit_id": -1}, "diesel": [0, 5.7]}                   *)
(*   "json_arr"    [true, null]                                            *)
(*   "yaml_map"    parameters:\n    env(DATABASE_URL): 'test'              *)
(*   "yaml_intkey" 1: x                                                    *)
(*   "garbage"     {"a": [                                                 *)
(*   "non_utf8"    bytes that are not UTF-8                                *)
(***************************************************************************)
\* A node of a parse tree.  A serde_json Map iterates in key order, a
\* serde_yaml Mapping in document order.
Node(t) == [Null EXCEPT !.t = t]

YStr(x) == [Node("String") EXCEPT !.s = x]

YNum(x) == [Node("Number") EXCEPT !.n = x]

\* serde_json::from_str::<serde_json::Value>
serde_json_from_str(content) ==
    CASE content = "json_obj" ->
            [ok |-> TRUE,
             tree |->
               [Node("Object") EXCEPT
                  !.keys = <<"diesel", "parameters">>,
                  !.kids = << [Node("Array") EXCEPT
                                 !.kids = << [Node("Number") EXCEPT !.n = PosInt(0)],
                                             [Node("Number") EXCEPT !.n = Float(Tenths(57))] >>],
                              [Node("Object") EXCEPT
                                 !.keys = <<"env(DATABASE_URL)", "limit_id">>,
                                 !.kids = << [Node("String") EXCEPT !.s = ""],
                                             [Node("Number") EXCEPT !.n = NegInt(-1)] >>] >>]]
      [] content = "json_arr" ->
            [ok |-> TRUE,
             tree |->
               [Node("Array") EXCEPT
                  !.kids = << [Node("Bool") EXCEPT !.b = TRUE], Node("Null") >>]]
      [] OTHER -> [ok |-> FALSE, tree |-> Node("Null")]

\* serde_yaml::from_str::<serde_yaml::Value>: JSON text is YAML flow syntax
serde_yaml_from_str(content) ==
    CASE content = "json_obj" ->
            [ok |-> TRUE,
             tree |->
               [Node("Mapping") EXCEPT
                  !.keys = << YStr("parameters"), YStr("diesel") >>,
                  !.kids = << [Node("Mapping") EXCEPT
                                 !.keys = << YStr("env(DATABASE_URL)"),
                                             YStr("limit_id") >>,
                                 !.kids = << YStr(""), YNum(NegInt(-1)) >>],
                              [Node("Sequence") EXCEPT
                                 !.kids = << YNum(PosInt(0)), YNum(Float(Tenths(57))) >>] >>]]
      [] content = "json_arr" ->
            [ok |-> TRUE,
             tree |->
               [Node("Sequence") EXCEPT
                  !.kids = << [Node("Bool") EXCEPT !.b = TRUE], Node("Null") >>]]
      [] content = "yaml_map" ->
            [ok |-> TRUE,
             tree |->
               [Node("Mapping") EXCEPT
                  !.keys = << YStr("parameters") >>,
                  !.kids = << [Node("Mapping") EXCEPT
                                 !.keys = << YStr("env(DATABASE_URL)") >>,
                                 !.kids = << YStr("test") >>] >>]]
      [] content = "yaml_intkey" ->
            [ok |-> TRUE,
             tree |->
               [Node("Mapping") EXCEPT
                  !.keys = << YNum(PosInt(1)) >>,
                  !.kids = << YStr("x") >>]]
      [] OTHER -> [ok |-> FALSE, tree |-> Node("Null")]

(***************************************************************************)
(* Paths and the file system.  A path has the directory it is an entry of, *)
(* a file stem and an extension (Path::file_stem, Path::extension); the    *)
(* stem and the extension are OsStr and need not be UTF-8.                 *)
(***************************************************************************)
NoExt == [present |-> FALSE, utf8 |-> TRUE, text |-> ""]

Ext(x) == [present |-> TRUE, utf8 |-> TRUE, text |-> x]

\* an extension such as b"te\x80st"
BadExt == [present |-> TRUE, utf8 |-> FALSE, text |-> ""]

Paths == {"config/diesel.json", "config/diesel.yml", "config/dev/app.toto",
          "config/no_extension", "config/dev", "config/dev/diesel.yaml",
          "tmp/bad.te?st", "config/app.json", "config/b?d.json"}

PathInfo(p) ==
    CASE p = "config/diesel.json" ->
            [dir |-> "prod", stem |-> "diesel", stemUtf8 |-> TRUE,
             ext |-> Ext("json")]
      [] p = "config/diesel.yml" ->
            [dir |-> "prod", stem |-> "diesel", stemUtf8 |-> TRUE,
             ext |-> Ext("yml")]
      [] p = "config/dev/app.toto" ->
            [dir |-> "dev", stem |-> "app", stemUtf8 |-> TRUE,
             ext |-> Ext("toto")]
      [] p = "config/no_extension" ->
            [dir |-> "prod", stem |-> "no_extension", stemUtf8 |-> TRUE,
             ext |-> NoExt]
      [] p = "config/dev" ->
            [dir |-> "prod", stem |-> "dev", stemUtf8 |-> TRUE,
             ext |-> NoExt]
      [] p = "config/dev/diesel.yaml" ->
            [dir |-> "dev", stem |-> "diesel", stemUtf8 |-> TRUE,
             ext |-> Ext("yaml")]
      [] p = "tmp/bad.te?st" ->
            [dir |-> "tmp", stem |-> "bad", stemUtf8 |-> TRUE,
             ext |-> BadExt]
      [] p = "config/app.json" ->
            [dir |-> "prod", stem |-> "app", stemUtf8 |-> TRUE,
             ext |-> Ext("json")]
      [] p = "config/b?d.json" ->
            [dir |-> "prod", stem |-> "b?d", stemUtf8 |-> FALSE,
             ext |-> Ext("json")]

\* The names a registry can hold: the stems of the paths.
Names == {PathInfo(p).stem : p \in Paths}

Absent == [kind |-> "absent", content |-> ""]

Dir == [kind |-> "dir", content |-> ""]

File(c) == [kind |-> "file", content |-> c]

\* The production directory "config" always exists in the model; the
\* development directory is the entry "config/dev" of it.
DirExists(d, files) == d = "prod" \/ files["config/dev"].kind = "dir"

\* The entries of directory d.
Entries(d, files) ==
    {p \in Paths : /\ PathInfo(p).dir = d
                   /\ files[p].kind # "absent"
                   /\ DirExists(d, files)}

(***************************************************************************)
(* Errors (error.rs): a kind and a description.                            *)
(***************************************************************************)
Ok == [st |-> "ok", kind |-> "", desc |-> ""]

Err(kind, desc) == [st |-> "err", kind |-> kind, desc |-> desc]

Panic == [st |-> "panic", kind |-> "", desc |-> ""]

(***************************************************************************)
(* Configuration (configuration.rs).  A cell is the pair of Arcs behind    *)
(* every clone of one Configuration: the cache, the path and the poison    *)
(* flags of their two locks; held says whether the caller owns a handle.   *)
(***************************************************************************)
\* Configuration::new
Configuration_new(path) ==
    [path |-> path, conf |-> None, confPoisoned |-> FALSE,
     pathPoisoned |-> FALSE, held |-> FALSE]

\* Configuration::is_loaded
is_loaded(cell) ==
    IF ~cell.confPoisoned
    THEN [res |-> Ok, flag |-> cell.conf.some]
    ELSE [res |-> Err("Other", "configuration got poisoned"), flag |-> FALSE]

\* Configuration::read_file
read_file(cell, files) ==
    IF ~cell.pathPoisoned
    THEN LET node == files[cell.path]
             \* io::Error::description of File::open and read_to_string
             description ==
                 CASE node.kind = "absent" -> "entity not found"
                   [] node.kind = "dir" -> "other os error"
                   [] OTHER -> "stream did not contain valid UTF-8"
         IN IF node.kind = "file" /\ node.content # "non_utf8"
            THEN [ok |-> TRUE, content |-> node.content, desc |-> ""]
            ELSE [ok |-> FALSE, content |-> "", desc |-> description]
    ELSE [ok |-> FALSE, content |-> "", desc |-> "path got poisoned"]

\* The conversion of a parse: a parse error is an Other error carrying the
\* parser's description, a panic of the conversion is a panic.
conversion(parse, c, description) ==
    IF ~parse.ok THEN [res |-> Err("Other", description), val |-> Null]
    ELSE IF c.panic THEN [res |-> Panic, val |-> Null]
    ELSE [res |-> Ok, val |-> c.val]

\* The Value a recognised extension makes of a content: the parser's result
\* converted, a parse error or a panic of the conversion.
deserialized(extension, content) ==
    IF extension = "json"
    THEN conversion(serde_json_from_str(content),
                    Value_from_json(serde_json_from_str(content).tree),
                    "JSON error")
    ELSE conversion(serde_yaml_from_str(content),
                    Value_from_yaml(serde_yaml_from_str(content).tree),
                    "YAML error")

\* store writing the cache whatever the outcome of the parse.
store_always(cell, d) ==
    IF d.res.st # "ok" THEN [res |-> d.res, conf |-> Some(d.val)]
    ELSE [res |-> Ok, conf |-> Some(d.val)]

\* The end of Configuration::deserialize: the write of the cache.
store(cell, d) ==
    IF d.res.st # "ok" THEN [res |-> d.res, conf |-> cell.conf]
    ELSE IF ~cell.confPoisoned
    THEN [res |-> Ok, conf |-> Some(d.val)]
    ELSE [res |-> Err("Other", "configuration got poisoned"),
          conf |-> cell.conf]

\* deserialize without the "yml" arm.
deserialize_no_yml(cell, extension, content) ==
    IF extension \in {"json", "yaml"}
    THEN store(cell, deserialized(extension, content))
    ELSE [res |-> Err("UnimplementedFormat",
                      "unimplemented format: " \o extension),
          conf |-> cell.conf]

\* Configuration::deserialize: the result and the cache it leaves.
deserialize(cell, extension, content) ==
    IF extension \in {"json", "yml", "yaml"}
    THEN store(cell, deserialized(extension, content))
    ELSE [res |-> Err("UnimplementedFormat",
                      "unimplemented format: " \o extension),
          conf |-> cell.conf]

\* A result of Configuration::load that leaves the cache as it is, after
\* opening the file reads times.
unchanged(cell, res, reads) ==
    [res |-> res, conf |-> cell.conf, reads |-> reads]

\* The end of Configuration::load, from the read of the file on.
load_content(cell, ext, content) ==
    IF ~content.ok
    THEN unchanged(cell, Err("MissingValue", content.desc), 1)
    ELSE [reads |-> 1] @@ deserialize(cell, ext.text, content.content)

\* load_checked reading the file before it looks at the extension.
load_checked_read_first(cell, files, loaded, ext) ==
    IF loaded.res.st = "err" THEN unchanged(cell, loaded.res, 0)
    ELSE IF loaded.flag THEN unchanged(cell, Ok, 0)
    ELSE IF ~read_file(cell, files).ok
    THEN unchanged(cell, Err("MissingValue", read_file(cell, files).desc), 1)
    ELSE IF ~ext.present
    THEN unchanged(cell, Err("MissingValue", "no extension available"), 1)
    ELSE IF ~ext.utf8
    THEN unchanged(cell, Err("FormatError", "extension's format is invalid"),
                   1)
    ELSE load_content(cell, ext, read_file(cell, files))

\* load_checked without the early return of a loaded Configuration.
load_checked_reloading(cell, files, loaded, ext) ==
    IF loaded.res.st = "err" THEN unchanged(cell, loaded.res, 0)
    ELSE IF ~ext.present
    THEN unchanged(cell, Err("MissingValue", "no extension available"), 0)
    ELSE IF ~ext.utf8
    THEN unchanged(cell, Err("FormatError", "extension's format is invalid"),
                   0)
    ELSE load_content(cell, ext, read_file(cell, files))

\* load_checked taking an extension that is not text for a missing one.
load_checked_lossy(cell, files, loaded, ext) ==
    IF loaded.res.st = "err" THEN unchanged(cell, loaded.res, 0)
    ELSE IF loaded.flag THEN unchanged(cell, Ok, 0)
    ELSE IF ~ext.present \/ ~ext.utf8
    THEN unchanged(cell, Err("MissingValue", "no extension available"), 0)
    ELSE load_content(cell, ext, read_file(cell, files))

\* Configuration::load after its is_loaded check.
load_checked(cell, files, loaded, ext) ==
    IF loaded.res.st = "err" THEN unchanged(cell, loaded.res, 0)
    ELSE IF loaded.flag THEN unchanged(cell, Ok, 0)
    ELSE IF cell.pathPoisoned
    THEN unchanged(cell, Err("Other", "path got poisoned"), 0)
    ELSE IF ~ext.present
    THEN unchanged(cell, Err("MissingValue", "no extension available"), 0)
    ELSE IF ~ext.utf8
    THEN unchanged(cell, Err("FormatError", "extension's format is invalid"),
                   0)
    ELSE load_content(cell, ext, read_file(cell, files))

\* Configuration::load: the result, the cache it leaves and the number of
\* times it opened the file.
Configuration_load(cell, files) ==
    load_checked(cell, files, is_loaded(cell), PathInfo(cell.path).ext)

\* get_loaded returning the error of load instead of discarding it.
get_loaded_propagating(cell, index, l) ==
    IF l.res.st # "ok"
    THEN [res |-> l.res, val |-> None, conf |-> l.conf, reads |-> l.reads]
    ELSE [res |-> Ok,
          val |-> IF l.conf.some THEN Value_get(l.conf.val, index) ELSE None,
          conf |-> l.conf, reads |-> l.reads]

\* get_loaded returning the whole cached document instead of the child.
get_loaded_whole(cell, index, l) ==
    IF l.res.st = "panic"
    THEN [res |-> Panic, val |-> None, conf |-> l.conf, reads |-> l.reads]
    ELSE [res |-> Ok, val |-> l.conf, conf |-> l.conf, reads |-> l.reads]

\* Configuration::get after its call of load.
get_loaded(cell, index, l) ==
    IF l.res.st = "panic"
    THEN [res |-> Panic, val |-> None, conf |-> l.conf, reads |-> l.reads]
    ELSE IF ~cell.confPoisoned
    THEN [res |-> Ok,
          val |-> IF l.conf.some THEN Value_get(l.conf.val, index) ELSE None,
          conf |-> l.conf, reads |-> l.reads]
    ELSE [res |-> Err("Other", "configuration got poisoned"),
          val |-> None, conf |-> l.conf, reads |-> l.reads]

\* Configuration::get reading the cache without calling load first.
Configuration_get_no_load(cell, files, index) ==
    [res |-> Ok,
     val |-> IF cell.conf.some THEN Value_get(cell.conf.val, index) ELSE None,
     conf |-> cell.conf, reads |-> 0]

\* Configuration::get: the result, the value and the cache it leaves.
Configuration_get(cell, files, index) ==
    get_loaded(cell, index, Configuration_load(cell, files))

(***************************************************************************)
(* Factory (factory.rs).  A registry maps a name to the cell of the        *)
(* Configuration registered under it, 0 when the name is absent.           *)
(***************************************************************************)
\* BTreeMap::new()
EmptyRegistry == [name \in Names |-> 0]

\* is_file_handled taking every regular file for a handled one.
is_file_handled_any_file(path, files) == files[path].kind = "file"

\* is_file_handled
is_file_handled(path, files) ==
    IF files[path].kind # "file" THEN FALSE
    ELSE LET HANDLED_EXTENSIONS == {"json", "yml", "yaml"}
             ext == PathInfo(path).ext
         IN IF ext.present
            THEN ext.utf8 /\ ext.text \in HANDLED_EXTENSIONS
            ELSE FALSE

\* The orders in which read_dir can enumerate the entries S.
RECURSIVE Orders(_)
Orders(S) ==
    IF S = {} THEN {<<>>}
    ELSE UNION {{<<p>> \o rest : rest \in Orders(S \ {p})} : p \in S}

\* The loop of Factory::load_directory over the entries from the i-th on:
\* the result, the registry, its lock's poison flag and the cells it leaves.
RECURSIVE scan(_, _, _, _, _, _)
RECURSIVE insert(_, _, _, _, _, _, _)

scan(entries, i, reg, poisoned, cs, files) ==
    IF i > Len(entries)
    THEN [res |-> Ok, reg |-> reg, poisoned |-> poisoned, cells |-> cs]
    ELSE IF ~is_file_handled(entries[i], files) \/ poisoned
    THEN scan(entries, i + 1, reg, poisoned, cs, files)
    ELSE IF ~PathInfo(entries[i]).stemUtf8
    THEN [res |-> Err("Other", "invalid file name"), reg |-> reg,
          poisoned |-> poisoned, cells |-> cs]
    ELSE insert(entries, i, reg, poisoned, cs, files,
                Configuration_load(Configuration_new(entries[i]), files))

\* insert replacing the Configuration a name already has, without error.
insert_replacing(entries, i, reg, poisoned, cs, files, l) ==
    IF l.res.st = "panic"
    THEN [res |-> Panic, reg |-> reg, poisoned |-> TRUE, cells |-> cs]
    ELSE IF l.res.st = "err"
    THEN [res |-> l.res, reg |-> reg, poisoned |-> poisoned, cells |-> cs]
    ELSE scan(entries, i + 1,
              [reg EXCEPT ![PathInfo(entries[i]).stem] = Len(cs) + 1],
              poisoned,
              Append(cs, [Configuration_new(entries[i])
                            EXCEPT !.conf = l.conf]),
              files)

\* insert keeping the Configuration a name already has, without error.
insert_keeping(entries, i, reg, poisoned, cs, files, l) ==
    IF l.res.st = "panic"
    THEN [res |-> Panic, reg |-> reg, poisoned |-> TRUE, cells |-> cs]
    ELSE IF l.res.st = "err"
    THEN [res |-> l.res, reg |-> reg, poisoned |-> poisoned, cells |-> cs]
    ELSE IF reg[PathInfo(entries[i]).stem] # 0
    THEN scan(entries, i + 1, reg, poisoned, cs, files)
    ELSE scan(entries, i + 1,
              [reg EXCEPT ![PathInfo(entries[i]).stem] = Len(cs) + 1],
              poisoned,
              Append(cs, [Configuration_new(entries[i])
                            EXCEPT !.conf = l.conf]),
              files)

\* insert going on to the next entry when the load of this one failed.
insert_skipping_failure(entries, i, reg, poisoned, cs, files, l) ==
    IF l.res.st = "panic"
    THEN [res |-> Panic, reg |-> reg, poisoned |-> TRUE, cells |-> cs]
    ELSE IF l.res.st = "err"
    THEN scan(entries, i + 1, reg, poisoned, cs, files)
    ELSE IF reg[PathInfo(entries[i]).stem] # 0
    THEN [res |-> Err("Other",
                      "a configuration already exists for '"
                        \o PathInfo(entries[i]).stem \o "'"),
          reg |-> [reg EXCEPT ![PathInfo(entries[i]).stem] = Len(cs) + 1],
          poisoned |-> poisoned,
          cells |-> Append(cs, [Configuration_new(entries[i])
                                  EXCEPT !.conf = l.conf])]
    ELSE scan(entries, i + 1,
              [reg EXCEPT ![PathInfo(entries[i]).stem] = Len(cs) + 1],
              poisoned,
              Append(cs, [Configuration_new(entries[i])
                            EXCEPT !.conf = l.conf]),
              files)

\* insert registering the Configuration before its load is known to have
\* succeeded.
insert_unloaded(entries, i, reg, poisoned, cs, files, l) ==
    IF l.res.st # "ok"
    THEN [res |-> l.res,
          reg |-> [reg EXCEPT ![PathInfo(entries[i]).stem] = Len(cs) + 1],
          poisoned |-> poisoned \/ l.res.st = "panic",
          cells |-> Append(cs, Configuration_new(entries[i]))]
    ELSE IF reg[PathInfo(entries[i]).stem] # 0
    THEN [res |-> Err("Other",
                      "a configuration already exists for '"
                        \o PathInfo(entries[i]).stem \o "'"),
          reg |-> [reg EXCEPT ![PathInfo(entries[i]).stem] = Len(cs) + 1],
          poisoned |-> poisoned,
          cells |-> Append(cs, [Configuration_new(entries[i])
                                  EXCEPT !.conf = l.conf])]
    ELSE scan(entries, i + 1,
              [reg EXCEPT ![PathInfo(entries[i]).stem] = Len(cs) + 1],
              poisoned,
              Append(cs, [Configuration_new(entries[i])
                            EXCEPT !.conf = l.conf]),
              files)

\* insert putting the previous Configuration back when it reports the
\* duplicate name.
insert_rollback(entries, i, reg, poisoned, cs, files, l) ==
    IF l.res.st = "panic"
    THEN [res |-> Panic, reg |-> reg, poisoned |-> TRUE, cells |-> cs]
    ELSE IF l.res.st = "err"
    THEN [res |-> l.res, reg |-> reg, poisoned |-> poisoned, cells |-> cs]
    ELSE IF reg[PathInfo(entries[i]).stem] # 0
    THEN [res |-> Err("Other",
                      "a configuration already exists for '"
                        \o PathInfo(entries[i]).stem \o "'"),
          reg |-> reg,
          poisoned |-> poisoned,
          cells |-> Append(cs, [Configuration_new(entries[i])
                                  EXCEPT !.conf = l.conf])]
    ELSE scan(entries, i + 1,
              [reg EXCEPT ![PathInfo(entries[i]).stem] = Len(cs) + 1],
              poisoned,
              Append(cs, [Configuration_new(entries[i])
                            EXCEPT !.conf = l.conf]),
              files)

\* configurations.insert(stem, { configuration.load()?; configuration }),
\* l being the outcome of that load, under the registry's write lock.
insert(entries, i, reg, poisoned, cs, files, l) ==
    IF l.res.st = "panic"
    THEN [res |-> Panic, reg |-> reg, poisoned |-> TRUE, cells |-> cs]
    ELSE IF l.res.st = "err"
    THEN [res |-> l.res, reg |-> reg, poisoned |-> poisoned, cells |-> cs]
    ELSE IF reg[PathInfo(entries[i]).stem] # 0
    THEN [res |-> Err("Other",
                      "a configuration already exists for '"
                        \o PathInfo(entries[i]).stem \o "'"),
          reg |-> [reg EXCEPT ![PathInfo(entries[i]).stem] = Len(cs) + 1],
          poisoned |-> poisoned,
          cells |-> Append(cs, [Configuration_new(entries[i])
                                  EXCEPT !.conf = l.conf])]
    ELSE scan(entries, i + 1,
              [reg EXCEPT ![PathInfo(entries[i]).stem] = Len(cs) + 1],
              poisoned,
              Append(cs, [Configuration_new(entries[i])
                            EXCEPT !.conf = l.conf]),
              files)

\* Factory::load_directory, read_dir enumerating the entries in this order.
load_directory(d, entries, reg, poisoned, cs, files) ==
    IF ~DirExists(d, files)
    THEN [res |-> Err("Other", "entity not found"), reg |-> reg,
          poisoned |-> poisoned, cells |-> cs]
    ELSE scan(entries, 1, reg, poisoned, cs, files)

\* Factory::load_production_directory
load_production_directory(f, entries, cs, files) ==
    load_directory("prod", entries, f.configurations, f.poisoned, cs, files)

\* Factory::load_development_directory
load_development_directory(f, entries, cs, files) ==
    load_directory("dev", entries, f.dev_configurations, f.dev_poisoned, cs,
                   files)

\* The Factory after a scan d of its development directory.
with_development(f, d) ==
    [res |-> d.res,
     factory |-> [f EXCEPT !.dev_configurations = d.reg,
                           !.dev_poisoned = d.poisoned],
     cells |-> d.cells]

\* Factory::load after self.load_production_directory() returned p.
load_development(f, development, devEntries, files, p) ==
    IF p.res.st # "ok" \/ ~development
    THEN [res |-> p.res, factory |-> f, cells |-> p.cells]
    ELSE with_development(
            f, load_development_directory(f, devEntries, p.cells, files))

\* Factory::load after the scan p of the production directory, which leaves
\* its registry and its lock's poison flag in the Factory.
load_production(f, development, devEntries, files, p) ==
    load_development([f EXCEPT !.configurations = p.reg,
                               !.poisoned = p.poisoned],
                     development, devEntries, files, p)

\* Factory::load in a build with (development) or without debug_assertions:
\* the result, the Factory and the cells it leaves.
Factory_load(f, development, prodEntries, devEntries, cs, files) ==
    load_production(f, development, devEntries, files,
                    load_production_directory(f, prodEntries, cs, files))

\* lookup reporting an absent name as an Other error.
lookup_other(reg, poisoned, configuration_name, poison) ==
    IF ~poisoned /\ reg[configuration_name] # 0
    THEN [res |-> Ok, handle |-> reg[configuration_name]]
    ELSE [res |-> Err("Other", poison), handle |-> 0]

\* lookup answering from a registry whose lock is poisoned.
lookup_through_poison(reg, poisoned, configuration_name, poison) ==
    IF reg[configuration_name] # 0
    THEN [res |-> Ok, handle |-> reg[configuration_name]]
    ELSE [res |-> Err("MissingValue", ""), handle |-> 0]

\* A lookup of a name in a registry behind a lock: the result and the cell
\* of the handle.
lookup(reg, poisoned, configuration_name, poison) ==
    IF ~poisoned
    THEN IF reg[configuration_name] # 0
         THEN [res |-> Ok, handle |-> reg[configuration_name]]
         ELSE [res |-> Err("MissingValue", ""), handle |-> 0]
    ELSE [res |-> Err("Other", poison), handle |-> 0]

\* Factory::get_development
get_development(f, configuration_name) ==
    lookup(f.dev_configurations, f.dev_poisoned, configuration_name,
           "dev_configurations got poisoned")

\* get_production returning the failure of the development lookup.
get_production_no_fall_through(f, development, configuration_name, dev) ==
    IF development
    THEN dev
    ELSE lookup(f.configurations, f.poisoned, configuration_name,
                "configurations got poisoned")

\* Factory::get after the development lookup returned dev.
get_production(f, development, configuration_name, dev) ==
    IF development /\ dev.res.st = "ok"
    THEN dev
    ELSE lookup(f.configurations, f.poisoned, configuration_name,
                "configurations got poisoned")

\* Factory::get: the result and the cell of the handle.
Factory_get(f, development, configuration_name) ==
    get_production(f, development, configuration_name,
                   get_development(f, configuration_name))

\* Factory::new
Factory_new ==
    [configurations |-> EmptyRegistry, poisoned |-> FALSE,
     dev_configurations |-> EmptyRegistry, dev_poisoned |-> FALSE]

\* rocket::ignite(): no fairing attached, nothing in managed state.
Rocket_ignite == [attached |-> FALSE, managed |-> FALSE]

\* on_attach returning Err(rocket) when the load failed.
on_attach_propagating(l) ==
    [res |-> l.res, load |-> l.res, factory |-> l.factory,
     cells |-> l.cells, managed |-> l.res.st = "ok"]

\* Factory::on_attach after self.load() returned l: the result of the load
\* is dropped, a clone of the Factory (sharing its two registries) goes into
\* managed state and the hook returns Ok(rocket); a panic of the load
\* unwinds through the hook.
on_attach_loaded(l) ==
    IF l.res.st = "panic"
    THEN [res |-> Panic, load |-> l.res, factory |-> l.factory,
          cells |-> l.cells, managed |-> FALSE]
    ELSE [res |-> Ok, load |-> l.res, factory |-> l.factory,
          cells |-> l.cells, managed |-> TRUE]

\* Factory::on_attach
on_attach(f, development, prodEntries, devEntries, cs, files) ==
    on_attach_loaded(Factory_load(f, development, prodEntries, devEntries,
                                  cs, files))

(***************************************************************************)
(* The request guard configuration!(stem) generates (codegen).  An Outcome *)
(* is Success with a Configuration, Failure with a status and an error, or *)
(* Forward.                                                                *)
(***************************************************************************)
Success(handle) ==
    [outcome |-> "Success", status |-> "", err |-> Ok, handle |-> handle]

Failure(status, err) ==
    [outcome |-> "Failure", status |-> status, err |-> err, handle |-> 0]

Forward == [outcome |-> "Forward", status |-> "", err |-> Ok, handle |-> 0]

\* request.guard::<State<Factory>>(): Success when a Factory is in managed
\* state, Failure when none is; it never forwards.
state_guard(rocket) == IF rocket.managed THEN "Success" ELSE "Failure"

\* from_request forwarding when factory.get fails.
from_request_forwarding(g) ==
    IF g.res.st = "ok" THEN Success(g.handle) ELSE Forward

\* from_request after factory.get(stem) returned g.
from_request_got(g) ==
    IF g.res.st = "ok" THEN Success(g.handle)
    ELSE Failure("InternalServerError", g.res)

\* impl FromRequest for the generated type
from_request(rocket, f, development, configuration_stem) ==
    IF state_guard(rocket) = "Success"
    THEN from_request_got(Factory_get(f, development, configuration_stem))
    ELSE Failure("InternalServerError",
                 Err("Other", "failed to get" \o configuration_stem
                                \o "configuration"))

(***************************************************************************)
(* The state.                                                              *)
(***************************************************************************)
VARIABLES
    files,        \* the file system: Paths -> Absent, Dir or File(content)
    fsChanges,    \* number of changes made to the file system
    development,  \* TRUE in a build with debug_assertions
    cells,        \* the Configuration cells allocated so far
    factory,      \* the Factory: its two registries and their locks
    rocket,       \* the host: whether the fairing was attached, and whether
                  \* its managed state holds a clone of the Factory
    last,         \* the last call: what was called and what it returned
    threads       \* the calls in progress on the threads that share the
                  \* Configurations and the Factory

vars ==
    <<files, fsChanges, development, cells, factory, rocket, last, threads>>

\* The record of a call; the fields a call does not use keep these values.
NoCall ==
    [op |-> "none", h |-> 0, index |-> StrIndex(""), name |-> "",
     res |-> Ok, flag |-> FALSE, val |-> None, handle |-> 0,
     before |-> None, reads |-> 0, args |-> <<>>, rets |-> <<>>]

\* A thread that is in no call.  In a call, op is the operation, pc the step
\* it is at, h the cell it works on, index and name its argument, content
\* what it made of the file, entries the directory entries it has still to
\* scan; res, seen, torn and out are what its last step returned or read.
NoThread ==
    [op |-> "none", pc |-> "-", h |-> 0, index |-> StrIndex(""), name |-> "",
     dir |-> "", entries |-> <<>>, content |-> Null, res |-> Ok,
     seen |-> None, torn |-> FALSE, out |-> None, handle |-> 0, calls |-> 0]

\* The indexes the caller looks up.
Indexes == {StrIndex("parameters"), StrIndex("limit_id"), IntIndex(0),
            IntIndex(2)}

\* The names the caller asks the Factory for.
LookupNames == {"diesel", "app"}

\* The file systems the program starts on: the tree of the tests (one
\* production file, one development file of the same stem, unhandled
\* files), a tree with two production files of one stem and a development
\* file whose mapping has an integer key, an empty production directory, and
\* a tree whose production file makes the conversion panic.
TestTree ==
    [p \in Paths |->
        CASE p = "config/diesel.json" -> File("json_obj")
          [] p = "config/no_extension" -> File("garbage")
          [] p = "config/dev/app.toto" -> File("garbage")
          [] p = "config/dev" -> Dir
          [] p = "config/dev/diesel.yaml" -> File("yaml_map")
          [] p = "tmp/bad.te?st" -> File("garbage")
          [] OTHER -> Absent]

DuplicateTree ==
    [p \in Paths |->
        CASE p = "config/diesel.json" -> File("json_obj")
          [] p = "config/diesel.yml" -> File("yaml_map")
          [] p = "config/dev" -> Dir
          [] p = "config/dev/diesel.yaml" -> File("yaml_intkey")
          [] OTHER -> Absent]

EmptyTree == [p \in Paths |-> Absent]

\* A tree whose production file is a YAML mapping with an integer key, the
\* conversion of which panics under the registry's write lock.
PoisonTree ==
    [p \in Paths |->
        CASE p = "config/diesel.yml" -> File("yaml_intkey")
          [] p = "config/dev" -> Dir
          [] p = "config/dev/diesel.yaml" -> File("yaml_map")
          [] OTHER -> Absent]

\* The paths the environment writes and removes files at and the callers
\* make a Configuration of, and the contents the environment writes there.
FilePaths == Paths \ {"config/dev", "config/app.json", "config/b?d.json"}

Writes(p) ==
    CASE p = "config/diesel.json" -> {"json_obj", "garbage"}
      [] p = "config/diesel.yml" -> {"json_arr", "non_utf8"}
      [] p = "config/dev/diesel.yaml" -> {"yaml_map", "yaml_intkey"}
      [] OTHER -> {"garbage"}

Init ==
    /\ files \in {TestTree, DuplicateTree, EmptyTree, PoisonTree}
    /\ fsChanges = 0
    /\ development \in BOOLEAN
    /\ cells = <<>>
    /\ factory = Factory_new
    /\ rocket = Rocket_ignite
    /\ last = NoCall
    /\ threads = [t \in 1..MaxThreads |-> NoThread]

\* The cells the caller holds a handle to.
Held == {h \in 1..Len(cells) : cells[h].held}

(***************************************************************************)
(* The environment writes or removes a file.                               *)
(***************************************************************************)
FsWrite(p, c) ==
    /\ fsChanges < MaxFsChanges
    /\ DirExists(PathInfo(p).dir, files) \/ PathInfo(p).dir = "tmp"
    /\ files[p] # File(c)
    /\ files' = [files EXCEPT ![p] = File(c)]
    /\ fsChanges' = fsChanges + 1
    /\ last' = [NoCall EXCEPT !.op = "fs"]
    /\ UNCHANGED <<development, cells, factory, rocket, threads>>

FsRemove(p) ==
    /\ fsChanges < MaxFsChanges
    /\ files[p].kind = "file"
    /\ files' = [files EXCEPT ![p] = Absent]
    /\ fsChanges' = fsChanges + 1
    /\ last' = [NoCall EXCEPT !.op = "fs"]
    /\ UNCHANGED <<development, cells, factory, rocket, threads>>

(***************************************************************************)
(* The calls on a Configuration.                                           *)
(***************************************************************************)
New(p) ==
    /\ Len(cells) < MaxCells
    /\ Cardinality({h \in 1..Len(cells) : cells[h].held}) < MaxNew
    /\ cells' = Append(cells, [Configuration_new(p) EXCEPT !.held = TRUE])
    /\ last' = [NoCall EXCEPT !.op = "new", !.h = Len(cells) + 1]
    /\ UNCHANGED <<files, fsChanges, development, factory, rocket, threads>>

IsLoaded(h) ==
    /\ h \in Held
    /\ last' = [NoCall EXCEPT !.op = "is_loaded", !.h = h,
                              !.res = is_loaded(cells[h]).res,
                              !.flag = is_loaded(cells[h]).flag,
                              !.before = cells[h].conf]
    /\ UNCHANGED <<files, fsChanges, development, cells, factory, rocket, threads>>

Loaded(h, r) ==
    /\ cells' = [cells EXCEPT ![h].conf = r.conf]
    /\ last' = [NoCall EXCEPT !.op = "load", !.h = h, !.res = r.res,
                              !.before = cells[h].conf, !.reads = r.reads]

Load(h) ==
    /\ h \in Held
    /\ Loaded(h, Configuration_load(cells[h], files))
    /\ UNCHANGED <<files, fsChanges, development, factory, rocket, threads>>

Got(h, index, r) ==
    /\ cells' = [cells EXCEPT ![h].conf = r.conf]
    /\ last' = [NoCall EXCEPT !.op = "get", !.h = h, !.index = index,
                              !.res = r.res, !.val = r.val,
                              !.before = cells[h].conf, !.reads = r.reads]

Get(h, index) ==
    /\ h \in Held
    /\ Got(h, index, Configuration_get(cells[h], files, index))
    /\ UNCHANGED <<files, fsChanges, development, factory, rocket, threads>>

(***************************************************************************)
(* The calls on the Factory.                                               *)
(***************************************************************************)
FactoryLoaded(r) ==
    /\ Len(r.cells) <= MaxCells
    /\ factory' = r.factory
    /\ cells' = r.cells
    /\ last' = [NoCall EXCEPT !.op = "Factory_load", !.res = r.res]

FactoryLoad ==
    /\ \E prodEntries \in Orders(Entries("prod", files)),
          devEntries \in Orders(Entries("dev", files)) :
            FactoryLoaded(Factory_load(factory, development, prodEntries,
                                       devEntries, cells, files))
    /\ UNCHANGED <<files, fsChanges, development, rocket, threads>>

\* A Factory::get that returns a copy of the registered Configuration, with
\* a cache and a path of its own.
FactoryGot_copying(name, r) ==
    /\ cells' = IF r.res.st = "ok"
                THEN Append(cells, [cells[r.handle] EXCEPT !.held = TRUE])
                ELSE cells
    /\ last' = [NoCall EXCEPT !.op = "Factory_get", !.name = name,
                              !.res = r.res,
                              !.handle = IF r.res.st = "ok"
                                         THEN Len(cells) + 1 ELSE 0]

FactoryGot(name, r) ==
    /\ cells' = IF r.res.st = "ok"
                THEN [cells EXCEPT ![r.handle].held = TRUE]
                ELSE cells
    /\ last' = [NoCall EXCEPT !.op = "Factory_get", !.name = name,
                              !.res = r.res, !.handle = r.handle]

FactoryGet(name) ==
    /\ FactoryGot(name, Factory_get(factory, development, name))
    /\ UNCHANGED <<files, fsChanges, development, factory, rocket, threads>>

(***************************************************************************)
(* The host attaches the Factory as a fairing, once, and resolves the      *)
(* request guard of a stem.                                                *)
(***************************************************************************)
OnAttached(r) ==
    /\ Len(r.cells) <= MaxCells
    /\ factory' = r.factory
    /\ cells' = r.cells
    /\ rocket' = [attached |-> TRUE, managed |-> r.managed]
    /\ last' = [NoCall EXCEPT !.op = "on_attach", !.res = r.res,
                              !.rets = <<r.load>>]

OnAttach ==
    /\ ~rocket.attached
    /\ \E prodEntries \in Orders(Entries("prod", files)),
          devEntries \in Orders(Entries("dev", files)) :
            OnAttached(on_attach(factory, development, prodEntries,
                                 devEntries, cells, files))
    /\ UNCHANGED <<files, fsChanges, development, threads>>

Resolved(stem, o) ==
    /\ cells' = IF o.outcome = "Success"
                THEN [cells EXCEPT ![o.handle].held = TRUE]
                ELSE cells
    /\ last' = [NoCall EXCEPT !.op = "from_request", !.name = stem,
                              !.res = o.err, !.handle = o.handle,
                              !.rets = <<o.outcome, o.status>>]

FromRequest(stem) ==
    /\ Resolved(stem, from_request(rocket, factory, development, stem))
    /\ UNCHANGED <<files, fsChanges, development, factory, rocket, threads>>

Next ==
    \/ \E p \in FilePaths : \E c \in Writes(p) : FsWrite(p, c)
    \/ \E p \in FilePaths : FsRemove(p)
    \/ \E p \in FilePaths : New(p)
    \/ \E h \in 1..MaxCells : IsLoaded(h)
    \/ \E h \in 1..MaxCells : Load(h)
    \/ \E h \in 1..MaxCells, index \in Indexes : Get(h, index)
    \/ FactoryLoad
    \/ \E name \in LookupNames : FactoryGet(name)
    \/ OnAttach
    \/ \E stem \in LookupNames : FromRequest(stem)

Spec == Init /\ [][Next]_vars

(***************************************************************************)
(* The calls on Numbers, which touch no file, Configuration or Factory:    *)
(* the Numbers, the f64 and the numbers of the parsers they are made on,   *)
(* and a specification of their own.  A JSON number is finite; a YAML      *)
(* number can be .inf, -.inf or .nan.                                      *)
(***************************************************************************)
F64s == {Tenths(-15), Tenths(0), Tenths(5), Tenths(57), Tenths(100),
         Tenths(1000), Infinity, NegInfinity, NaN}

Unsigneds == {0, 1, 7, I64Max, I64Max + 1, U64Max}

Negatives == {-1, -7, I64Min}

JsonNumbers ==
    {PosInt(u) : u \in Unsigneds} \cup {NegInt(i) : i \in Negatives}
      \cup {Float(f) : f \in {g \in F64s : f64_is_finite(g)}}

YamlNumbers == JsonNumbers \cup {Float(f) : f \in F64s}

\* The Numbers the conversions and constructors make.
Numbers ==
    {Number_from(n).val.n : n \in YamlNumbers}
      \cup {from_f64(f).n : f \in {g \in F64s : from_f64(g).some}}

\* The parse tree lib ("json" or "yaml") makes of one document, a map of
\* three entries, one of them a map of two, when its maps iterate with their
\* keys in the orders outer and inner.
Tree(lib, outer, inner) ==
    LET map == IF lib = "json" THEN "Object" ELSE "Mapping"
        seq == IF lib = "json" THEN "Array" ELSE "Sequence"
        key(k) == IF lib = "json" THEN k ELSE YStr(k)
        leaf(k) == IF k = "limit_id" THEN YNum(NegInt(-1)) ELSE YStr("")
        kid(k) ==
            CASE k = "parameters" ->
                    [Node(map) EXCEPT
                       !.keys = [i \in 1..Len(inner) |-> key(inner[i])],
                       !.kids = [i \in 1..Len(inner) |-> leaf(inner[i])]]
              [] k = "diesel" ->
                    [Node(seq) EXCEPT
                       !.kids = << YNum(PosInt(0)), YNum(Float(Tenths(57))) >>]
              [] OTHER -> YNum(PosInt(7))
    IN [Node(map) EXCEPT
          !.keys = [i \in 1..Len(outer) |-> key(outer[i])],
          !.kids = [i \in 1..Len(outer) |-> kid(outer[i])]]

\* A call that is about to be made: the function and its arguments.
Pending(fn, args) ==
    [NoCall EXCEPT !.op = "pending", !.name = fn, !.args = args]

\* The calls of the specification: a comparison of three Numbers, the
\* accessors of a Number and of a Value (a Number, Null or a String), the
\* constructions of a Number, and the conversions of the JSON and the YAML
\* parse tree of one document, each with its maps in some order.
NumInit ==
    /\ files = EmptyTree
    /\ fsChanges = 0
    /\ development = FALSE
    /\ cells = <<>>
    /\ factory = Factory_new
    /\ rocket = Rocket_ignite
    /\ threads = [t \in 1..MaxThreads |-> NoThread]
    /\ last \in
         {Pending("cmp", <<a, b, c>>) : a \in Numbers, b \in Numbers,
                                        c \in Numbers}
           \cup {Pending("Number_as", <<n>>) : n \in Numbers}
           \cup {Pending("Value_as", <<Number(n)>>) : n \in Numbers}
           \cup {Pending("Value_as", <<v>>) : v \in {Null, String("7")}}
           \cup {Pending("from_f64", <<f>>) : f \in F64s}
           \cup {Pending("from_json", <<n>>) : n \in JsonNumbers}
           \cup {Pending("from_yaml", <<n>>) : n \in YamlNumbers}
           \cup {Pending("from_tree", <<Tree("json", o[1], i[1]),
                                        Tree("yaml", o[2], i[2])>>) :
                   o \in Orders({"parameters", "diesel", "limit_id"})
                          \X Orders({"parameters", "diesel", "limit_id"}),
                   i \in Orders({"limit_id", "env(DATABASE_URL)"})
                          \X Orders({"limit_id", "env(DATABASE_URL)"})}

\* The pending call fn returns rets.
Returned(fn, rets) ==
    /\ last.op = "pending"
    /\ last.name = fn
    /\ last' = [NoCall EXCEPT !.op = fn, !.args = last.args, !.rets = rets]
    /\ UNCHANGED <<files, fsChanges, development, cells, factory, rocket, threads>>

Compare ==
    LET a == last.args[1]
        b == last.args[2]
        c == last.args[3]
    IN Returned("cmp", <<Number_cmp(a, b), Number_cmp(b, a),
                         Number_cmp(b, c), Number_cmp(a, c),
                         N_partial_cmp(a, b)>>)

NumberAccess ==
    LET n == last.args[1]
    IN Returned("Number_as", <<is_u64(n), as_u64(n), is_i64(n), as_i64(n),
                               is_f64(n), as_f64(n)>>)

ValueAccess ==
    LET v == last.args[1]
    IN Returned("Value_as", <<Value_is_u64(v), Value_as_u64(v),
                              Value_is_i64(v), Value_as_i64(v),
                              Value_is_f64(v), Value_as_f64(v)>>)

FromF64 == Returned("from_f64", <<from_f64(last.args[1])>>)

FromJsonNumber == Returned("from_json", <<Number_from(last.args[1])>>)

FromYamlNumber == Returned("from_yaml", <<Number_from(last.args[1])>>)

FromTree ==
    Returned("from_tree", <<Value_from_json(last.args[1]),
                            Value_from_yaml(last.args[2])>>)

NumNext ==
    \/ Compare
    \/ NumberAccess
    \/ ValueAccess
    \/ FromF64
    \/ FromJsonNumber
    \/ FromYamlNumber
    \/ FromTree

NumSpec == NumInit /\ [][NumNext]_vars

(***************************************************************************)
(* Threads.  The calls of the threads that share one Configuration (clones *)
(* of one handle) and the Factory, step by step: a step is what a call     *)
(* does between two points where another thread can run, that is under one *)
(* acquisition of a lock or on the thread's own data.  Configuration::load *)
(* reads the cache under its read lock (is_loaded), releases it, reads and *)
(* parses the file, then takes the write lock and stores the Value;        *)
(* Configuration::get then reads the cache under the read lock.            *)
(* Factory::load_directory takes the registry's write lock once for each   *)
(* entry, around the load and the insert of that entry.                    *)
(***************************************************************************)
\* RwLock: the cache lock of cell h is held by the thread that is storing
\* into it; read() and write() block while it is.
locked_never(ts, h) == FALSE

\* A write() that also waits behind the threads that wait for the lock.
locked_by_waiters(ts, h) ==
    \E u \in DOMAIN ts : ts[u].pc \in {"lock", "store"} /\ ts[u].h = h

locked(ts, h) == \E u \in DOMAIN ts : ts[u].pc = "store" /\ ts[u].h = h

\* The call of the thread, or the load that Configuration::get starts with,
\* has returned res: get drops an error of its load and goes on to read the
\* cache; a panic unwinds and ends the thread.
returned(th, res) ==
    IF th.op = "get" /\ th.pc # "get" /\ res.st # "panic"
    THEN [th EXCEPT !.pc = "get", !.res = res]
    ELSE [th EXCEPT !.pc = "-", !.res = res, !.dir = "", !.entries = <<>>,
                    !.calls = IF res.st = "panic" THEN MaxCalls ELSE th.calls]

\* IsLoadedStep with an is_loaded that goes on to load what is not loaded.
IsLoadedStep_loading(t, op, h, index) ==
    /\ threads[t].pc = "-"
    /\ threads[t].calls < MaxCalls
    /\ h \in Held
    /\ ~locked(threads, h)
    /\ LET th == [threads[t] EXCEPT !.op = op, !.h = h, !.index = index,
                                    !.calls = @ + 1,
                                    !.seen = cells[h].conf,
                                    !.torn = FALSE, !.out = None]
           loaded == is_loaded(cells[h])
       IN threads' = [threads EXCEPT ![t] =
                        IF loaded.res.st # "ok" THEN returned(th, loaded.res)
                        ELSE IF loaded.flag THEN returned(th, Ok)
                        ELSE [th EXCEPT !.pc = "read"]]
    /\ UNCHANGED <<files, fsChanges, development, cells, factory, rocket, last>>

\* is_loaded, alone or as the first step of load (of get): the thread reads
\* the cache under the read lock.
IsLoadedStep(t, op, h, index) ==
    /\ threads[t].pc = "-"
    /\ threads[t].calls < MaxCalls
    /\ h \in Held
    /\ ~locked(threads, h)
    /\ LET th == [threads[t] EXCEPT !.op = op, !.h = h, !.index = index,
                                    !.calls = @ + 1,
                                    !.seen = cells[h].conf,
                                    !.torn = \E u \in DOMAIN threads :
                                                /\ threads[u].pc = "store"
                                                /\ threads[u].h = h,
                                    !.out = None]
           loaded == is_loaded(cells[h])
       IN threads' = [threads EXCEPT ![t] =
                        IF op = "is_loaded" \/ loaded.res.st # "ok"
                        THEN returned(th, loaded.res)
                        ELSE IF loaded.flag THEN returned(th, Ok)
                        ELSE [th EXCEPT !.pc = "read"]]
    /\ UNCHANGED <<files, fsChanges, development, cells, factory, rocket, last>>

\* A read that caches its failure: the cache is left Loaded with Null.
ReadStep_caching_failure(t) ==
    /\ threads[t].pc = "read"
    /\ LET r == load_checked(cells[threads[t].h], files,
                             [res |-> Ok, flag |-> FALSE],
                             PathInfo(cells[threads[t].h].path).ext)
       IN /\ threads' = [threads EXCEPT ![t] =
                           IF r.res.st = "ok"
                           THEN [threads[t] EXCEPT !.pc = "lock",
                                                   !.content = r.conf.val]
                           ELSE returned(threads[t], r.res)]
          /\ cells' = IF r.res.st = "err"
                      THEN [cells EXCEPT ![threads[t].h].conf = Some(Null)]
                      ELSE cells
    /\ UNCHANGED <<files, fsChanges, development, factory, rocket, last>>

\* The thread reads and parses the file: r is what Configuration::load
\* makes of it for a cache that was not loaded when the thread looked.
ReadStep(t) ==
    /\ threads[t].pc = "read"
    /\ LET r == load_checked(cells[threads[t].h], files,
                             [res |-> Ok, flag |-> FALSE],
                             PathInfo(cells[threads[t].h].path).ext)
       IN threads' = [threads EXCEPT ![t] =
                        IF r.res.st = "ok"
                        THEN [threads[t] EXCEPT !.pc = "lock",
                                                !.content = r.conf.val]
                        ELSE returned(threads[t], r.res)]
    /\ UNCHANGED <<files, fsChanges, development, cells, factory, rocket, last>>

\* self.configuration.write(): the thread takes the write lock.
LockStep(t) ==
    /\ threads[t].pc = "lock"
    /\ ~locked(threads, threads[t].h)
    /\ threads' = [threads EXCEPT ![t].pc = "store"]
    /\ UNCHANGED <<files, fsChanges, development, cells, factory, rocket, last>>

\* (*configuration) = Some(deserialized), and the release of the lock.
StoreStep(t) ==
    /\ threads[t].pc = "store"
    /\ cells' = [cells EXCEPT ![threads[t].h].conf = Some(threads[t].content)]
    /\ threads' = [threads EXCEPT ![t] = returned(threads[t], Ok)]
    /\ UNCHANGED <<files, fsChanges, development, factory, rocket, last>>

\* The read of the cache that ends Configuration::get.
GetStep(t) ==
    /\ threads[t].pc = "get"
    /\ ~locked(threads, threads[t].h)
    /\ LET cell == cells[threads[t].h]
           got == get_loaded(cell, threads[t].index,
                             [res |-> threads[t].res, conf |-> cell.conf,
                              reads |-> 0])
       IN threads' = [threads EXCEPT ![t] =
                        returned([threads[t] EXCEPT
                                    !.seen = cell.conf,
                                    !.torn = \E u \in DOMAIN threads :
                                                /\ threads[u].pc = "store"
                                                /\ threads[u].h = threads[t].h,
                                    !.out = got.val],
                                 got.res)]
    /\ UNCHANGED <<files, fsChanges, development, cells, factory, rocket, last>>

\* path.read_dir() of directory d, which enumerates entries: the thread
\* goes on to scan them, or returns the error of read_dir.
Open(t, th, d) ==
    /\ \E entries \in Orders(Entries(d, files)) :
          LET r == load_directory(d, <<>>, EmptyRegistry, FALSE, cells, files)
          IN threads' = [threads EXCEPT ![t] =
                           IF r.res.st = "ok"
                           THEN [th EXCEPT !.pc = "scan", !.dir = d,
                                           !.entries = entries]
                           ELSE returned(th, r.res)]
    /\ UNCHANGED <<files, fsChanges, development, cells, factory, rocket, last>>

\* Factory::load: the thread opens the production directory.
FactoryLoadStep(t) ==
    /\ threads[t].pc = "-"
    /\ threads[t].calls < MaxCalls
    /\ Open(t, [threads[t] EXCEPT !.op = "Factory_load", !.calls = @ + 1],
            "prod")

\* A turn of the loop that ends the scan of the production directory on a
\* failure and lets Factory::load go on to the development directory.
ScanStep_going_on(t) ==
    /\ threads[t].pc = "scan"
    /\ threads[t].entries # <<>>
    /\ LET r == IF threads[t].dir = "prod"
                THEN scan(<<Head(threads[t].entries)>>, 1,
                          factory.configurations, factory.poisoned, cells,
                          files)
                ELSE scan(<<Head(threads[t].entries)>>, 1,
                          factory.dev_configurations, factory.dev_poisoned,
                          cells, files)
       IN /\ cells' = r.cells
          /\ factory' = IF threads[t].dir = "prod"
                        THEN [factory EXCEPT !.configurations = r.reg,
                                             !.poisoned = r.poisoned]
                        ELSE [factory EXCEPT !.dev_configurations = r.reg,
                                             !.dev_poisoned = r.poisoned]
          /\ threads' = [threads EXCEPT ![t] =
                           IF r.res.st = "ok"
                           THEN [threads[t] EXCEPT !.entries = Tail(@)]
                           ELSE IF threads[t].dir = "prod"
                           THEN [threads[t] EXCEPT !.entries = <<>>,
                                                   !.res = r.res]
                           ELSE returned(threads[t], r.res)]
    /\ UNCHANGED <<files, fsChanges, development, rocket, last>>

\* One turn of the loop of Factory::load_directory, r being what it makes of
\* the registry: the entry is registered, skipped, or ends the scan.
ScanStep(t) ==
    /\ threads[t].pc = "scan"
    /\ threads[t].entries # <<>>
    /\ LET r == IF threads[t].dir = "prod"
                THEN scan(<<Head(threads[t].entries)>>, 1,
                          factory.configurations, factory.poisoned, cells,
                          files)
                ELSE scan(<<Head(threads[t].entries)>>, 1,
                          factory.dev_configurations, factory.dev_poisoned,
                          cells, files)
       IN /\ cells' = r.cells
          /\ factory' = IF threads[t].dir = "prod"
                        THEN [factory EXCEPT !.configurations = r.reg,
                                             !.poisoned = r.poisoned]
                        ELSE [factory EXCEPT !.dev_configurations = r.reg,
                                             !.dev_poisoned = r.poisoned]
          /\ threads' = [threads EXCEPT ![t] =
                           IF r.res.st = "ok"
                           THEN [threads[t] EXCEPT !.entries = Tail(@)]
                           ELSE returned(threads[t], r.res)]
    /\ UNCHANGED <<files, fsChanges, development, rocket, last>>

\* The end of a scan: Factory::load goes on to the development directory in
\* a build with debug_assertions, and returns Ok otherwise.
ScanEnd(t) ==
    /\ threads[t].pc = "scan"
    /\ threads[t].entries = <<>>
    /\ IF threads[t].dir = "prod" /\ development
       THEN Open(t, threads[t], "dev")
       ELSE /\ threads' = [threads EXCEPT ![t] = returned(threads[t], Ok)]
            /\ UNCHANGED <<files, fsChanges, development, cells, factory,
                           rocket, last>>

\* Factory::get, under the read locks of the registries.
FactoryGetStep(t, name) ==
    /\ threads[t].pc = "-"
    /\ threads[t].calls < MaxCalls
    /\ LET g == Factory_get(factory, development, name)
       IN threads' = [threads EXCEPT ![t] =
                        returned([threads[t] EXCEPT
                                    !.op = "Factory_get", !.name = name,
                                    !.calls = @ + 1, !.handle = g.handle,
                                    !.seen = IF g.res.st = "ok"
                                             THEN cells[g.handle].conf
                                             ELSE None],
                                 g.res)]
    /\ UNCHANGED <<files, fsChanges, development, cells, factory, rocket, last>>

\* The threads start on one Configuration that is not loaded, of which each
\* holds a clone, and on a new Factory.  The file of that Configuration is
\* the one the environment changes while they run.  One of the trees has a
\* production file of another stem beside the two of one stem, and one
\* has a single production file, whose stem is not valid text.
SharedPath == "config/diesel.yml"

ThreadInit ==
    /\ files \in {TestTree, DuplicateTree, PoisonTree,
                  [DuplicateTree EXCEPT
                     !["config/app.json"] = File("json_obj")],
                  [EmptyTree EXCEPT
                     !["config/b?d.json"] = File("json_obj")]}
    /\ fsChanges = 0
    /\ development \in BOOLEAN
    /\ cells = <<[Configuration_new(SharedPath) EXCEPT !.held = TRUE]>>
    /\ factory = Factory_new
    /\ rocket = Rocket_ignite
    /\ last = NoCall
    /\ threads = [t \in 1..MaxThreads |-> NoThread]

ThreadNext ==
    \/ \E c \in Writes(SharedPath) : FsWrite(SharedPath, c)
    \/ FsRemove(SharedPath)
    \/ \E t \in 1..MaxThreads, op \in {"is_loaded", "load"} :
          IsLoadedStep(t, op, 1, StrIndex(""))
    \/ \E t \in 1..MaxThreads,
          index \in {StrIndex("parameters"), IntIndex(0)} :
            IsLoadedStep(t, "get", 1, index)
    \/ \E t \in 1..MaxThreads : ReadStep(t)
    \/ \E t \in 1..MaxThreads : LockStep(t)
    \/ \E t \in 1..MaxThreads : StoreStep(t)
    \/ \E t \in 1..MaxThreads : GetStep(t)
    \/ \E t \in 1..MaxThreads : FactoryLoadStep(t)
    \/ \E t \in 1..MaxThreads : ScanStep(t)
    \/ \E t \in 1..MaxThreads : ScanEnd(t)
    \/ \E t \in 1..MaxThreads, name \in LookupNames : FactoryGetStep(t, name)

ThreadSpec == ThreadInit /\ [][ThreadNext]_vars

\* A step thread t takes inside a call it has started.
Continue(t) ==
    \/ ReadStep(t)
    \/ LockStep(t)
    \/ StoreStep(t)
    \/ GetStep(t)
    \/ ScanStep(t)
    \/ ScanEnd(t)

\* The locks thread th holds between two of its steps, in the order it took
\* them.  Configuration::load keeps the guard of self.path.read() until it
\* returns, so it holds it while it waits for self.configuration.write() and
\* while it stores.  The guards of is_loaded, of read_file, of
\* Configuration::get and of the registries are taken and dropped inside one
\* step, the registry's write guard around the load of a Configuration that
\* no other thread holds yet.
Holds(th) ==
    CASE th.pc = "lock" -> <<[lock |-> "path", mode |-> "read"]>>
      [] th.pc = "store" -> <<[lock |-> "path", mode |-> "read"],
                              [lock |-> "cache", mode |-> "write"]>>
      [] OTHER -> <<>>

\* Thread t waits: its next step is a read() or a write() of a cache lock
\* that another thread holds.  Every other step inside a call can be taken.
Blocked(t) ==
    /\ threads[t].pc \in {"lock", "get"}
    /\ locked(threads, threads[t].h)

\* The threads start in a development build, over one of the trees with two
\* production files of one stem.
LiveInit ==
    /\ ThreadInit
    /\ files \in {DuplicateTree, PoisonTree}
    /\ development = TRUE

\* The threads of a development build over the trees with two production
\* files of one stem, under a scheduler that does not leave a thread that
\* can step waiting forever: WF_vars(Continue(t)), in which the steps of
\* Continue(t) are enabled exactly when the thread is inside a call and not
\* Blocked.
LiveSpec ==
    /\ LiveInit
    /\ [][ThreadNext]_vars
    /\ \A t \in 1..MaxThreads :
          \/ []<>(threads[t].pc = "-" \/ Blocked(t))
          \/ []<><<Continue(t)>>_vars

(***************************************************************************)
(* Properties.  They speak of the last call: the cell it was made on, the  *)
(* path of that cell and the file at that path (no call changes a file).   *)
(***************************************************************************)
LastCell == cells[last.h]

LastExt == PathInfo(LastCell.path).ext

LastFile == files[LastCell.path]

Recognised(ext) == ext.present /\ ext.utf8 /\ ext.text \in {"json", "yml", "yaml"}

Readable(node) == node.kind = "file" /\ node.content # "non_utf8"

\* The parser the extension selects accepts the content.
Parses(ext, content) ==
    IF ext.text = "json" THEN content \in {"json_obj", "json_arr"}
    ELSE content \in {"json_obj", "json_arr", "yaml_map", "yaml_intkey"}

\* The document of a content, written out as a Value.
Document(content) ==
    CASE content = "json_obj" ->
            Object(<<"diesel", "parameters">>,
                   << Array(<< Number(PosInt(0)), Number(Float(Tenths(57))) >>),
                      Object(<<"env(DATABASE_URL)", "limit_id">>,
                             << String(""), Number(NegInt(-1)) >>) >>)
      [] content = "json_arr" -> Array(<< Bool(TRUE), Null >>)
      [] content = "yaml_map" ->
            Object(<<"parameters">>,
                   << Object(<<"env(DATABASE_URL)">>, << String("test") >>) >>)
      [] OTHER -> Null

\* The child of v an index selects.
Child(v, index) ==
    IF index.kind = "str"
    THEN IF v.t = "Object" /\ \E i \in 1..Len(v.keys) : v.keys[i] = index.key
         THEN Some(v.kids[CHOOSE i \in 1..Len(v.keys) : v.keys[i] = index.key])
         ELSE None
    ELSE IF v.t = "Array" /\ index.pos + 1 \in 1..Len(v.kids)
         THEN Some(v.kids[index.pos + 1])
         ELSE None

\* C1: get on a Configuration that was never loaded and whose file cannot
\* be loaded (no file, an extension that is missing, not text or not
\* supported, a content that cannot be read or parsed) returns Ok(None), and
\* the Configuration is still not loaded afterwards.
C1_GetSwallowsLoadFailure ==
    (/\ last.op = "get"
     /\ ~last.before.some
     /\ \/ ~Recognised(LastExt)
        \/ ~Readable(LastFile)
        \/ ~Parses(LastExt, LastFile.content))
    => /\ last.res = Ok
       /\ last.val = None
       /\ LastCell.conf = None
       /\ is_loaded(LastCell) = [res |-> Ok, flag |-> FALSE]

\* a get on a handled file whose content does not parse
C1_Witness ==
    /\ last.op = "get"
    /\ ~last.before.some
    /\ Recognised(LastExt)
    /\ Readable(LastFile)
    /\ ~Parses(LastExt, LastFile.content)
    /\ last.val = None

\* C2: a get on a Configuration that is not loaded, whose file is readable
\* and parses, loads it: when get returns, the cache is Loaded with the
\* document of the file and the result is the lookup of the index in it.
C2_GetLoads ==
    (/\ last.op = "get"
     /\ ~last.before.some
     /\ Recognised(LastExt)
     /\ Readable(LastFile)
     /\ Parses(LastExt, LastFile.content)
     /\ last.res.st # "panic")
    => /\ last.res = Ok
       /\ LastCell.conf = Some(Document(LastFile.content))
       /\ last.val = Child(Document(LastFile.content), last.index)
       /\ last.reads = 1

\* a get that loaded a document and found the index in it
C2_Witness ==
    /\ last.op = "get"
    /\ ~last.before.some
    /\ LastCell.conf.some
    /\ last.val.some

\* C3: a get on a loaded Configuration returns Ok with a copy of the child
\* the index selects, None when it selects none, and leaves the cache as it
\* was, whatever the format of the file the cache was loaded from.
C3_GetOnLoaded ==
    (last.op = "get" /\ last.before.some)
    => /\ last.res = Ok
       /\ last.val = Child(last.before.val, last.index)
       /\ LastCell.conf = last.before
       /\ last.reads = 0

\* a get on a cache loaded from a YAML file that resolved its index
C3_Witness ==
    /\ last.op = "get"
    /\ last.before.some
    /\ LastExt.text \in {"yml", "yaml"}
    /\ last.val.some

\* a get on a cache loaded from a JSON file whose index selects nothing
C3_WitnessAbsent ==
    /\ last.op = "get"
    /\ last.before.some
    /\ LastExt.text = "json"
    /\ ~last.val.some

\* C4: load on a loaded Configuration returns Ok without opening the file
\* and leaves the cache as it was, whatever has become of the file.
C4_LoadOnLoaded ==
    (last.op = "load" /\ last.before.some)
    => /\ last.res = Ok
       /\ last.reads = 0
       /\ LastCell.conf = last.before

\* a load on a loaded Configuration whose file is gone or no longer parses
C4_Witness ==
    /\ last.op = "load"
    /\ last.before.some
    /\ \/ ~Readable(LastFile)
       \/ ~Parses(LastExt, LastFile.content)
    /\ last.res = Ok

\* The file of the last call is a YAML file whose mapping has a key that is
\* not a string.
NonStringKey ==
    /\ LastExt.text \in {"yml", "yaml"}
    /\ LastFile = File("yaml_intkey")

\* C5 as claimed: every load that does not leave the Configuration loaded
\* returns an error value, and leaves the cache as it was.
C5_EveryFailureReturned ==
    (last.op = "load" /\ ~LastCell.conf.some)
    => /\ last.res.st = "err"
       /\ LastCell.conf = last.before

\* C5: every load that does not leave the Configuration loaded returns an
\* error value, unless the conversion of a YAML mapping with a key that is
\* not a string panics, and then load does not return; either way the cache
\* is left as it was, and a load that returns Ok leaves it loaded.
C5_FailureReturnedOrPanic ==
    last.op = "load"
    => /\ ~LastCell.conf.some
          => \/ last.res.st = "err"
             \/ last.res.st = "panic" /\ NonStringKey
       /\ last.res.st # "ok" => LastCell.conf = last.before
       /\ last.res.st = "ok" => LastCell.conf.some

\* a load of a file that does not parse returned an error
C5_Witness ==
    /\ last.op = "load"
    /\ Recognised(LastExt)
    /\ Readable(LastFile)
    /\ ~Parses(LastExt, LastFile.content)
    /\ last.res.st = "err"
    /\ LastCell.conf = None

\* C6 as claimed: load on a Configuration that is not loaded, over a path
\* whose extension is text other than json, yml and yaml, fails with
\* UnimplementedFormat and "unimplemented format: <ext>", whether or not a
\* file exists at the path.
C6_UnimplementedFormat ==
    (/\ last.op = "load"
     /\ ~last.before.some
     /\ LastExt.present /\ LastExt.utf8
     /\ LastExt.text \notin {"json", "yml", "yaml"})
    => last.res = Err("UnimplementedFormat",
                      "unimplemented format: " \o LastExt.text)

\* C7 as claimed: a load that cannot read the file of a recognised
\* extension fails with kind Other.
C7_IoFailureIsOther ==
    (/\ last.op = "load"
     /\ ~last.before.some
     /\ Recognised(LastExt)
     /\ ~Readable(LastFile))
    => /\ last.res.st = "err"
       /\ last.res.kind = "Other"

\* C8: load on a Configuration that is not loaded, over a path without
\* extension, fails with MissingValue and "no extension available" without
\* opening the file, whether or not the file exists.
C8_NoExtension ==
    (/\ last.op = "load"
     /\ ~last.before.some
     /\ ~LastExt.present)
    => /\ last.res = Err("MissingValue", "no extension available")
       /\ last.reads = 0
       /\ LastCell.conf = None

\* a load over a path without extension at which a file exists
C8_Witness ==
    /\ last.op = "load"
    /\ ~LastExt.present
    /\ LastFile.kind = "file"
    /\ last.res.kind = "MissingValue"

\* What the production registry alone answers for a name.
ProductionAnswer(f, name) ==
    IF f.poisoned THEN Err("Other", "configurations got poisoned")
    ELSE IF f.configurations[name] # 0 THEN Ok
    ELSE Err("MissingValue", "")

\* The handled files of directory d, and whether each loads.
Handled(d) ==
    {p \in Entries(d, files) :
        files[p].kind = "file" /\ Recognised(PathInfo(p).ext)}

Loads(p) ==
    /\ Readable(files[p])
    /\ Parses(PathInfo(p).ext, files[p].content)
    /\ files[p].content # "yaml_intkey"

\* C9: in a development build Factory.get returns the development
\* registry's Configuration whenever the name is there, and what the
\* production registry answers whenever the development lookup fails (the
\* name is absent there, or that registry's lock is poisoned); in any other
\* build it returns what the production registry answers.  A first scan of a
\* tree whose files all load and in which no stem occurs twice in one
\* directory succeeds, a stem in both directories included, and registers
\* every handled file in the registry of its directory.
C9_DevelopmentShadows ==
    [][/\ last'.op = "Factory_get"
          => IF /\ development
                /\ ~factory.dev_poisoned
                /\ factory.dev_configurations[last'.name] # 0
             THEN /\ last'.res = Ok
                  /\ last'.handle = factory.dev_configurations[last'.name]
             ELSE /\ last'.res = ProductionAnswer(factory, last'.name)
                  /\ last'.res = Ok
                       => last'.handle = factory.configurations[last'.name]
       /\ (/\ last'.op = "Factory_load"
           /\ factory = Factory_new
           /\ development
           /\ DirExists("dev", files)
           /\ \A d \in {"prod", "dev"} : \A p, q \in Handled(d) :
                 /\ Loads(p)
                 /\ PathInfo(p).stem = PathInfo(q).stem => p = q)
          => /\ last'.res = Ok
             /\ \A p \in Handled("prod") :
                   /\ factory'.configurations[PathInfo(p).stem] # 0
                   /\ cells'[factory'.configurations[PathInfo(p).stem]].path
                        = p
             /\ \A p \in Handled("dev") :
                   /\ factory'.dev_configurations[PathInfo(p).stem] # 0
                   /\ cells'[factory'.dev_configurations[PathInfo(p).stem]]
                        .path = p
      ]_vars

\* a development build holds a name in both registries and get returned the
\* development Configuration
C9_Witness ==
    /\ last.op = "Factory_get"
    /\ development
    /\ factory.configurations[last.name] # 0
    /\ factory.dev_configurations[last.name] # 0
    /\ last.res = Ok
    /\ last.handle = factory.dev_configurations[last.name]
    /\ cells[last.handle].path = "config/dev/diesel.yaml"

\* a development build whose development registry is poisoned and get
\* returned the production Configuration
C9_WitnessFallThrough ==
    /\ last.op = "Factory_get"
    /\ development
    /\ factory.dev_poisoned
    /\ last.res = Ok
    /\ last.handle = factory.configurations[last.name]

\* The registries Factory.get consults in this build hold no such name.
AbsentEverywhere(f, name) ==
    /\ f.configurations[name] = 0
    /\ development => f.dev_configurations[name] = 0

\* C10: Factory.get changes neither registry and allocates no
\* Configuration; when no registry lock is poisoned it returns a
\* MissingValue error exactly when the name is absent from every registry it
\* consults.
C10_MissingValueIffAbsent ==
    [][last'.op = "Factory_get"
       => /\ factory' = factory
          /\ Len(cells') = Len(cells)
          /\ \A h \in 1..Len(cells) : cells'[h].conf = cells[h].conf
          /\ (~factory.poisoned /\ ~factory.dev_poisoned)
             => ((last'.res.st = "err" /\ last'.res.kind = "MissingValue")
                  <=> AbsentEverywhere(factory, last'.name))
      ]_vars

\* a get of a name absent from populated registries returned MissingValue
C10_Witness ==
    /\ last.op = "Factory_get"
    /\ last.res.st = "err"
    /\ last.res.kind = "MissingValue"
    /\ \E name \in Names : factory.configurations[name] # 0
    /\ ~factory.poisoned /\ ~factory.dev_poisoned

\* The duplicate-name error of a scan.
DuplicateError(stem) ==
    Err("Other", "a configuration already exists for '" \o stem \o "'")

\* Two handled files of directory d have one stem.
SameStem(d) ==
    \E p, q \in Handled(d) :
        p # q /\ PathInfo(p).stem = PathInfo(q).stem

\* The load of the handled file p panics, and the error it returns when it
\* fails without panicking.
Panics(p) ==
    /\ Readable(files[p])
    /\ PathInfo(p).ext.text \in {"yml", "yaml"}
    /\ files[p].content = "yaml_intkey"

Fails(p) == ~Loads(p) /\ ~Panics(p)

LoadFailure(p) ==
    IF ~Readable(files[p])
    THEN Err("MissingValue", "stream did not contain valid UTF-8")
    ELSE IF PathInfo(p).ext.text = "json" THEN Err("Other", "JSON error")
    ELSE Err("Other", "YAML error")

\* C11 as claimed: Factory.load over a production directory with two
\* handled files of one stem returns the duplicate-name error, in whatever
\* order the entries are enumerated.
C11_DuplicateStemFails ==
    [][(last'.op = "Factory_load" /\ SameStem("prod"))
       => \E name \in Names : last'.res = DuplicateError(name)
      ]_vars

\* C11: Factory.load over a production directory with two handled files of
\* one stem, every handled file of which loads, into a registry whose lock
\* is not poisoned, returns the duplicate-name error of that stem, in
\* whatever order the entries are enumerated.
C11_DuplicateStemOfLoadableFails ==
    [][(/\ last'.op = "Factory_load"
        /\ SameStem("prod")
        /\ ~factory.poisoned
        /\ \A p \in Handled("prod") : Loads(p))
       => /\ \E p \in Handled("prod") :
                last'.res = DuplicateError(PathInfo(p).stem)
          /\ factory'.configurations["diesel"] # 0
      ]_vars

\* a first scan of a directory holding diesel.json and diesel.yml returned
\* the duplicate-name error
C11_Witness ==
    /\ last.op = "Factory_load"
    /\ last.res = DuplicateError("diesel")
    /\ files["config/diesel.json"].kind = "file"
    /\ files["config/diesel.yml"].kind = "file"
    /\ Len(cells) = 2

\* C12 as claimed: an operation that needs a poisoned lock returns an
\* Other error naming the poisoned resource: Factory.load over a directory
\* with a handled file when the lock of that directory's registry is
\* poisoned, Factory.get when the lock of a registry it consults is
\* poisoned, and is_loaded, load and get of a Configuration whose cache lock
\* is poisoned.
C12_PoisonedLockFails ==
    [][/\ (/\ last'.op = "Factory_load"
           /\ factory.poisoned
           /\ Handled("prod") # {})
          => last'.res = Err("Other", "configurations got poisoned")
       /\ (/\ last'.op = "Factory_get"
           /\ development
           /\ factory.dev_poisoned)
          => last'.res = Err("Other", "dev_configurations got poisoned")
       /\ (/\ last'.op = "Factory_get"
           /\ ~development
           /\ factory.poisoned)
          => last'.res = Err("Other", "configurations got poisoned")
       /\ (/\ last'.op \in {"is_loaded", "load", "get"}
           /\ cells[last'.h].confPoisoned)
          => last'.res = Err("Other", "configuration got poisoned")
      ]_vars

\* The duplicate-name errors a scan of directory d into registry reg can
\* return: of the stems two handled files share or reg already holds.
Duplicates(d, reg) ==
    {DuplicateError(PathInfo(p).stem) :
        p \in {q \in Handled(d) :
                 \/ reg[PathInfo(q).stem] # 0
                 \/ \E r \in Handled(d) :
                       r # q /\ PathInfo(r).stem = PathInfo(q).stem}}

\* C13: a scan loads each handled file before it registers it: when a
\* handled file of the production directory fails to load (none panicking,
\* the lock not poisoned), Factory.load returns the load error of such a
\* file, or the duplicate-name error of a name met before it, and registers
\* no file that failed; the same holds of the development directory of a
\* development build once the production scan succeeded; and every
\* Configuration a scan registers is loaded.
C13_LoadFailureFailsScan ==
    [][last'.op = "Factory_load"
       => /\ (/\ ~factory.poisoned
              /\ \E p \in Handled("prod") : Fails(p)
              /\ \A p \in Handled("prod") : ~Panics(p))
             => /\ last'.res \in
                     {LoadFailure(p) : p \in {q \in Handled("prod") :
                                                Fails(q)}}
                       \cup Duplicates("prod", factory.configurations)
                /\ factory'.dev_configurations = factory.dev_configurations
          /\ (/\ development
              /\ factory = Factory_new
              /\ \A p \in Handled("prod") : Loads(p)
              /\ ~SameStem("prod")
              /\ \E p \in Handled("dev") : Fails(p)
              /\ \A p \in Handled("dev") : ~Panics(p))
             => last'.res \in
                   {LoadFailure(p) : p \in {q \in Handled("dev") : Fails(q)}}
          /\ \A name \in Names :
                /\ factory'.configurations[name]
                     \notin {0, factory.configurations[name]}
                   => /\ cells'[factory'.configurations[name]].conf.some
                      /\ Loads(cells'[factory'.configurations[name]].path)
                /\ factory'.dev_configurations[name]
                     \notin {0, factory.dev_configurations[name]}
                   => /\ cells'[factory'.dev_configurations[name]].conf.some
                      /\ Loads(cells'[factory'.dev_configurations[name]].path)
      ]_vars

\* Factory.load returned the parse error of a malformed JSON file and
\* registered nothing
C13_Witness ==
    /\ last.op = "Factory_load"
    /\ last.res = Err("Other", "JSON error")
    /\ files["config/diesel.json"] = File("garbage")
    /\ factory.configurations = EmptyRegistry

\* The stems of the handled files of directory d.
HandledStems(d) == {PathInfo(p).stem : p \in Handled(d)}

\* The names registry reg holds.
Registered(reg) == {name \in Names : reg[name] # 0}

\* C14: a first Factory.load over directories whose handled files all load
\* and have different stems returns Ok and registers exactly the regular
\* files with extension json, yml or yaml, each under its stem in the
\* registry of its directory: sub-directories, files without extension and
\* files of another extension cause no error and get no entry.  Whatever the
\* scan returns, an entry it adds is a regular file of such an extension
\* registered under its stem.
C14_RegistersExactlyHandled ==
    [][last'.op = "Factory_load"
       => /\ (/\ factory = Factory_new
              /\ development => DirExists("dev", files)
              /\ \A d \in {"prod", "dev"} :
                    /\ \A p \in Handled(d) : Loads(p)
                    /\ ~SameStem(d))
             => /\ last'.res = Ok
                /\ Registered(factory'.configurations) = HandledStems("prod")
                /\ Registered(factory'.dev_configurations)
                     = IF development THEN HandledStems("dev") ELSE {}
          /\ \A name \in Names :
                /\ factory'.configurations[name]
                     \notin {0, factory.configurations[name]}
                   => LET p == cells'[factory'.configurations[name]].path
                      IN /\ p \in Handled("prod")
                         /\ PathInfo(p).stem = name
                /\ factory'.dev_configurations[name]
                     \notin {0, factory.dev_configurations[name]}
                   => LET p == cells'[factory'.dev_configurations[name]].path
                      IN /\ p \in Handled("dev")
                         /\ PathInfo(p).stem = name
      ]_vars

\* a scan of the tree of the tests returned Ok and registered neither the
\* file without extension, nor the sub-directory, nor the .toto file
C14_Witness ==
    /\ last.op = "Factory_load"
    /\ last.res = Ok
    /\ development
    /\ files["config/no_extension"].kind = "file"
    /\ files["config/dev"].kind = "dir"
    /\ files["config/dev/app.toto"].kind = "file"
    /\ Registered(factory.configurations) = {"diesel"}
    /\ Registered(factory.dev_configurations) = {"diesel"}

\* C15 as claimed: Factory.load on a Factory whose production registry
\* holds a name returns the duplicate-name error.
C15_SecondLoadFails ==
    [][(/\ last'.op = "Factory_load"
        /\ Registered(factory.configurations) # {})
       => \E name \in Names : last'.res = DuplicateError(name)
      ]_vars

\* C15: Factory.load on a Factory whose production registry already holds
\* the stem of a handled file of the production directory returns the
\* duplicate-name error of such a stem, when every handled file of that
\* directory loads and the lock of the registry is not poisoned.
C15_SecondLoadOfLoadableFails ==
    [][(/\ last'.op = "Factory_load"
        /\ HandledStems("prod") \cap Registered(factory.configurations) # {}
        /\ ~factory.poisoned
        /\ \A p \in Handled("prod") : Loads(p))
       => /\ last'.res \in Duplicates("prod", factory.configurations)
          /\ Registered(factory'.configurations)
               = Registered(factory.configurations)
      ]_vars

\* a second Factory.load over a directory with one handled file returned
\* the duplicate-name error
C15_Witness ==
    /\ last.op = "Factory_load"
    /\ last.res = DuplicateError("diesel")
    /\ files["config/diesel.json"].kind = "file"
    /\ files["config/diesel.yml"].kind = "absent"
    /\ Len(cells) = 2

\* The opposite of an Ordering.
Reverse(o) ==
    CASE o = "Less" -> "Greater"
      [] o = "Greater" -> "Less"
      [] OTHER -> "Equal"

\* C16: Ord::cmp of Numbers a, b, c is category first, then magnitude: a
\* non-negative integer is Greater than every negative integer and every
\* float, a negative integer is Greater than every float, whatever their
\* magnitudes; two Numbers of one integer category compare as their values;
\* cmp(a, b) is the reverse of cmp(b, a) and is Equal only for equal
\* Numbers (antisymmetry); and a <= b, b <= c imply a <= c, strictly when
\* either is strict (transitivity).
C16_CategoryThenMagnitude ==
    last.op = "cmp"
    => LET a == last.args[1]
           b == last.args[2]
           c == last.args[3]
           ab == last.rets[1]
           ba == last.rets[2]
           bc == last.rets[3]
           ac == last.rets[4]
       IN /\ (a.k = "PosInt" /\ b.k \in {"NegInt", "Float"}) => ab = "Greater"
          /\ (a.k = "NegInt" /\ b.k = "Float") => ab = "Greater"
          /\ (a.k = b.k /\ a.k \in {"PosInt", "NegInt"})
             => /\ ab = "Less" <=> a.v < b.v
                /\ ab = "Equal" <=> a.v = b.v
                /\ ab = "Greater" <=> a.v > b.v
          /\ ab = Reverse(ba)
          /\ ab = "Equal" <=> a = b
          /\ (ab # "Greater" /\ bc # "Greater") => ac # "Greater"
          /\ (ab # "Greater" /\ bc # "Greater" /\ "Less" \in {ab, bc})
             => ac = "Less"

\* the non-negative integer 0 compared Greater than the negative integer
\* of largest magnitude, which compared Greater than the float 100.0
C16_Witness ==
    /\ last.op = "cmp"
    /\ last.args = <<PosInt(0), NegInt(I64Min), Float(Tenths(1000))>>
    /\ SubSeq(last.rets, 1, 4) = <<"Greater", "Less", "Greater", "Greater">>

\* C17 as claimed: from_f64 returns None for an infinite or NaN f64 and a
\* finite float Number otherwise, and the conversion of a number of the
\* JSON parser or of the YAML parser never makes a float Number that is
\* infinite or NaN.
C17_FloatIsFinite ==
    /\ last.op = "from_f64"
       => /\ last.rets[1].some <=> f64_is_finite(last.args[1])
          /\ last.rets[1].some => last.rets[1].n = Float(last.args[1])
    /\ last.op \in {"from_json", "from_yaml"}
       => /\ ~last.rets[1].panic
          /\ last.rets[1].val.n.k = "Float"
             => f64_is_finite(last.rets[1].val.n.f)

\* C18 as claimed: on every Number and every Value, as_u64 is Some iff
\* is_u64, as_i64 is Some iff is_i64, and as_f64 is Some iff is_f64.
C18_AccessorIffPredicate ==
    last.op \in {"Number_as", "Value_as"}
    => /\ last.rets[2].some <=> last.rets[1]
       /\ last.rets[4].some <=> last.rets[3]
       /\ last.rets[6].some <=> last.rets[5]

\* A handled file of a directory the scan of this build reads panics.
ScanPanics ==
    \/ \E p \in Handled("prod") : Panics(p)
    \/ development /\ \E p \in Handled("dev") : Panics(p)

\* C19 as claimed: the attach hook always returns Ok(rocket) and puts the
\* Factory in managed state.
C19_AttachAlwaysSucceeds ==
    [][last'.op = "on_attach" => (last'.res = Ok /\ rocket'.managed)]_vars

\* C19: the attach hook calls Factory.load once and drops its result: when
\* no handled file makes the scan panic it returns Ok(rocket) with the
\* Factory in managed state, whether the load returned Ok or an error (a
\* missing development directory, a file that fails to load, a duplicate
\* name), and the registries it shares hold what the scan registered before
\* it failed; when the load panics, the hook unwinds and nothing is managed.
C19_AttachIgnoresLoadError ==
    [][last'.op = "on_attach"
       => /\ ~ScanPanics => (last'.res = Ok /\ rocket'.managed)
          /\ last'.rets[1].st = "panic"
             => (last'.res = Panic /\ ~rocket'.managed)
          /\ (/\ development /\ ~DirExists("dev", files)
              /\ factory = Factory_new
              /\ ~SameStem("prod")
              /\ \A p \in Handled("prod") : Loads(p))
             => last'.rets[1] = Err("Other", "entity not found")
          /\ (/\ ~factory.poisoned
              /\ \E p \in Handled("prod") : Fails(p)
              /\ \A p \in Handled("prod") : ~Panics(p))
             => last'.rets[1].st = "err"
          /\ (/\ ~factory.poisoned
              /\ SameStem("prod")
              /\ \A p \in Handled("prod") : Loads(p))
             => /\ last'.rets[1] = DuplicateError("diesel")
                /\ factory'.configurations["diesel"] # 0
          /\ (/\ factory = Factory_new
              /\ ~SameStem("prod")
              /\ \A p \in Handled("prod") : Loads(p))
             => Registered(factory'.configurations) = HandledStems("prod")
          /\ Len(cells') - Len(cells)
               <= Cardinality(Handled("prod") \cup Handled("dev"))
      ]_vars

\* the hook returned Ok(rocket) although its load returned the
\* duplicate-name error, and the managed Factory holds the name registered
\* before the failure
C19_Witness ==
    /\ last.op = "on_attach"
    /\ last.rets[1] = DuplicateError("diesel")
    /\ last.res = Ok
    /\ rocket.managed
    /\ factory.configurations["diesel"] # 0

\* The cell Factory.get answers a name with, 0 when it fails.
Answer(f, name) ==
    IF development /\ ~f.dev_poisoned /\ f.dev_configurations[name] # 0
    THEN f.dev_configurations[name]
    ELSE IF f.poisoned THEN 0
    ELSE f.configurations[name]

\* C20: the request guard of a stem is Success with the Configuration
\* Factory.get(stem) returns when a Factory is in managed state and that
\* get succeeds, and otherwise (the get fails, or no Factory is managed)
\* Failure with the status InternalServerError and an error; it is never
\* Forward, and it changes neither registry.
C20_GuardSucceedsOrFailsInternal ==
    [][last'.op = "from_request"
       => /\ IF rocket.managed /\ Answer(factory, last'.name) # 0
             THEN /\ last'.rets = <<"Success", "">>
                  /\ last'.handle = Answer(factory, last'.name)
             ELSE /\ last'.rets = <<"Failure", "InternalServerError">>
                  /\ last'.res.st = "err"
                  /\ last'.handle = 0
          /\ ~rocket.managed
             => last'.res = Err("Other", "failed to get" \o last'.name
                                            \o "configuration")
          /\ factory' = factory
      ]_vars

\* with a Factory in managed state, the guard of a name no registry holds
\* failed with InternalServerError and the MissingValue error of the get
C20_Witness ==
    /\ last.op = "from_request"
    /\ rocket.managed
    /\ last.rets = <<"Failure", "InternalServerError">>
    /\ last.res.kind = "MissingValue"
    /\ Registered(factory.configurations) # {}

\* the guard succeeded with the Configuration of the development registry
C20_WitnessSuccess ==
    /\ last.op = "from_request"
    /\ last.rets[1] = "Success"
    /\ development
    /\ last.handle = factory.dev_configurations[last.name]
    /\ cells[last.handle].held

\* C21: a load on a Configuration that is not loaded and whose path has an
\* extension that is not valid text fails with FormatError "extension's
\* format is invalid", without opening the file, and leaves it not loaded.
C21_InvalidExtension ==
    (/\ last.op = "load"
     /\ ~last.before.some
     /\ LastExt.present
     /\ ~LastExt.utf8)
    => /\ last.res = Err("FormatError", "extension's format is invalid")
       /\ last.reads = 0
       /\ LastCell.conf = None

\* a load of a readable file whose extension is not valid text
C21_Witness ==
    /\ last.op = "load"
    /\ ~last.before.some
    /\ LastExt.present
    /\ ~LastExt.utf8
    /\ Readable(LastFile)
    /\ last.res.kind = "FormatError"

\* The contents a parser and the conversion make a Value of.
Convertible == {"json_obj", "json_arr", "yaml_map"}

\* The thread has parsed the file and stored the Value it made of it (its
\* record keeps that Value in the calls it makes afterwards).
Stored(t) ==
    /\ threads[t].pc \notin {"read", "lock", "store"}
    /\ threads[t].content # Null

\* C22: threads that load one Configuration concurrently may each read, parse
\* and store; whatever the interleaving, every thread whose load stored
\* leaves the cache Loaded, the cache holds the whole Value one of the
\* threads made of the file, and every read of the cache saw it not loaded
\* or holding a whole Value, never a store in progress.
C22_RacingLoadsKeepCacheWhole ==
    /\ \A t \in 1..MaxThreads :
          /\ ~threads[t].torn
          /\ threads[t].seen.some =>
                \E c \in Convertible : threads[t].seen.val = Document(c)
          /\ Stored(t) => cells[threads[t].h].conf.some
    /\ cells[1].conf.some =>
          /\ \E t \in 1..MaxThreads :
                Stored(t) /\ cells[1].conf = Some(threads[t].content)
          /\ \E c \in Convertible : cells[1].conf.val = Document(c)

\* both threads saw the Configuration not loaded, parsed the file, which
\* changed in between, and stored: the cache holds what one of them made
C22_Witness ==
    /\ Stored(1)
    /\ Stored(2)
    /\ threads[1].content # threads[2].content
    /\ threads[1].pc = "-"
    /\ threads[2].pc = "-"
    /\ cells[1].conf.some

\* C23: the cache of a Configuration is changed only by the store of a load
\* (called directly or through get), and a Loaded cache stays Loaded: once
\* is_loaded is true of a cell it is true of it ever after, whatever the
\* threads and the environment do, and no step of an is_loaded changes a
\* cache.
C23_CacheOnlyLoads ==
    [][\A h \in 1..Len(cells) :
          /\ Len(cells') >= Len(cells)
          /\ is_loaded(cells[h]).flag => is_loaded(cells'[h]).flag
          /\ cells'[h].conf # cells[h].conf =>
                \E t \in 1..MaxThreads :
                    /\ threads[t].op \in {"load", "get"}
                    /\ threads[t].h = h
                    /\ threads[t].pc = "store"
                    /\ threads'[t].pc # "store"]_vars

\* a thread is about to store what it parsed into a cache that another
\* thread has loaded with something else since it looked
C23_Witness ==
    \E t \in 1..MaxThreads :
        /\ threads[t].pc = "store"
        /\ cells[threads[t].h].conf.some
        /\ cells[threads[t].h].conf.val # threads[t].content

\* C24: for all Numbers a and b the derived comparison agrees with
\* Ord::cmp, partial_cmp(a, b) = Some(cmp(a, b)); in particular a
\* non-negative integer is Greater than a negative integer under both.
C24_DerivedAgreesWithCmp ==
    last.op = "cmp" =>
        /\ last.rets[5] = [some |-> TRUE, ord |-> last.rets[1]]
        /\ (last.args[1].k = "PosInt" /\ last.args[2].k = "NegInt") =>
              (last.rets[1] = "Greater" /\ last.rets[5].ord = "Greater")

\* C25: every Configuration in either registry of the Factory is Loaded, in
\* every state the threads reach (a scan under way, a scan that failed, a
\* registry whose lock is poisoned), and a Factory.get that returned a
\* handle returned one that was Loaded.
C25_RegisteredIsLoaded ==
    /\ \A name \in Registered(factory.configurations) :
          cells[factory.configurations[name]].conf.some
    /\ \A name \in Registered(factory.dev_configurations) :
          cells[factory.dev_configurations[name]].conf.some
    /\ \A t \in 1..MaxThreads :
          (threads[t].op = "Factory_get" /\ threads[t].res.st = "ok") =>
              threads[t].seen.some

\* A Factory.get returned a Loaded handle while a scan was under way: the
\* scan has since replaced that name's entry and failed.
C25_Witness ==
    \E t, u \in 1..MaxThreads :
        /\ threads[t].op = "Factory_get"
        /\ threads[t].res.st = "ok"
        /\ threads[t].seen.some
        /\ threads[u].op = "Factory_load"
        /\ threads[u].pc = "-"
        /\ threads[u].res.st = "err"
        /\ factory.configurations[threads[t].name] # threads[t].handle

\* The registry a scan of directory d fills.
RegistryOf(f, d) ==
    IF d = "prod" THEN f.configurations ELSE f.dev_configurations

\* C26: when a turn of a scan ends it with the duplicate-name error of the
\* entry it is at, the registry has been modified: the duplicated name now
\* refers to a new Configuration of that entry's file, which is Loaded, the
\* Configuration it referred to before is replaced (it stays as it was, out
\* of the registry), and every other name refers to what it referred to
\* before; nothing is rolled back.
C26_DuplicateLeavesRegistryModified ==
    [][\A t \in 1..MaxThreads :
         (/\ threads[t].pc = "scan"
          /\ threads[t].entries # <<>>
          /\ threads'[t].pc = "-"
          /\ threads'[t].res
               = DuplicateError(PathInfo(Head(threads[t].entries)).stem))
         => LET entry == Head(threads[t].entries)
                stem == PathInfo(entry).stem
                before == RegistryOf(factory, threads[t].dir)
                after == RegistryOf(factory', threads[t].dir)
            IN /\ before[stem] # 0
               /\ after[stem] = Len(cells) + 1
               /\ Len(cells') = Len(cells) + 1
               /\ cells'[after[stem]].path = entry
               /\ cells'[after[stem]].conf.some
               /\ \A h \in 1..Len(cells) : cells'[h] = cells[h]
               /\ \A name \in Names \ {stem} : after[name] = before[name]
      ]_vars

\* A scan registered app.json and diesel.json and failed on diesel.yml:
\* "diesel" refers to the Configuration of diesel.yml, the one of
\* diesel.json is out of the registry, and "app" is still registered.
C26_Witness ==
    \E t \in 1..MaxThreads :
        /\ threads[t].op = "Factory_load"
        /\ threads[t].pc = "-"
        /\ threads[t].res = DuplicateError("diesel")
        /\ Len(cells) = 4
        /\ cells[2].path = "config/app.json"
        /\ cells[3].path = "config/diesel.json"
        /\ cells[4].path = "config/diesel.yml"
        /\ factory.configurations["app"] = 2
        /\ factory.configurations["diesel"] = 4

\* The scan of the production directory fails with an error at entry p: it
\* is a handled file, the lock of the registry is not poisoned, and the file
\* fails to load, or loads under a name the registry already holds.
FailingEntry(p) ==
    /\ p \in Handled("prod")
    /\ ~factory.poisoned
    /\ \/ Fails(p)
       \/ Loads(p) /\ factory.configurations[PathInfo(p).stem] # 0

FailedLoad(t) ==
    /\ threads[t].op \in {"load", "get"}
    /\ threads[t].pc = "-"
    /\ threads[t].content = Null
    /\ IF threads[t].op = "load" THEN threads[t].res.st = "err"
       ELSE threads[t].res = Ok /\ ~threads[t].seen.some

\* C28: a failed load is not cached.  After a load or a get failed to load,
\* the cache is still empty unless another call stored a document; a call
\* that finds it empty reads and parses the file as it is then, so it keeps
\* the document when the file is now readable and well-formed and nothing
\* otherwise; what it keeps it stores, load returning Ok; and a get then
\* returns the child its index selects in the cached document.
C28_FailedLoadNotCached ==
    [][(\E t \in 1..MaxThreads : FailedLoad(t))
       => /\ (\A u \in 1..MaxThreads : ~Stored(u)) => ~cells[1].conf.some
          /\ \A u \in 1..MaxThreads :
                LET th == threads[u]
                    path == cells[th.h].path
                IN /\ (th.pc = "read" /\ threads'[u] # th)
                      => IF Loads(path)
                         THEN /\ threads'[u].pc = "lock"
                              /\ threads'[u].content
                                   = Document(files[path].content)
                         ELSE /\ threads'[u].pc # "lock"
                              /\ threads'[u].content = Null
                              /\ cells' = cells
                   /\ (th.pc = "store" /\ threads'[u] # th)
                      => /\ cells'[th.h].conf = Some(th.content)
                         /\ threads'[u].res = Ok
                         /\ th.op = "load" => threads'[u].pc = "-"
                   /\ (th.pc = "get" /\ threads'[u] # th /\ cells[th.h].conf.some)
                      => /\ threads'[u].res = Ok
                         /\ threads'[u].out
                              = Child(cells[th.h].conf.val, th.index)
      ]_vars

\* A load failed on a file that was missing; the file was then written, and
\* a get loaded it and returned a value of it.
C28_Witness ==
    \E t, u \in 1..MaxThreads :
        /\ FailedLoad(t)
        /\ threads[t].op = "load"
        /\ threads[t].res.kind = "MissingValue"
        /\ fsChanges = 1
        /\ threads[u].op = "get"
        /\ threads[u].pc = "-"
        /\ threads[u].content = Document(files[SharedPath].content)
        /\ cells[1].conf = Some(threads[u].content)
        /\ threads[u].out.some

\* C29 as claimed: a Factory.load that panics has poisoned the lock of the
\* registry it was filling, that lock stays poisoned, and from then on
\* Factory.get returns the Other error "configurations got poisoned" for
\* every name when the poisoned lock is the production registry's.
C29_PoisonedGetAlwaysFails ==
    [][/\ (last'.op = "Factory_load" /\ last'.res = Panic)
          => \/ ~factory.poisoned /\ factory'.poisoned
             \/ ~factory.dev_poisoned /\ factory'.dev_poisoned
       /\ factory.poisoned => factory'.poisoned
       /\ (last'.op = "Factory_get" /\ factory.poisoned)
          => last'.res = Err("Other", "configurations got poisoned")
      ]_vars

\* C29: a Factory.load that panics has poisoned the lock of the registry it
\* was filling, and that lock stays poisoned; from then on, when it is the
\* production registry's, Factory.get returns the Other error
\* "configurations got poisoned" for every name, registered before the panic
\* or not, except a name that the development registry of a development
\* build holds behind a lock that is not poisoned, for which it returns that
\* registry's Configuration.
C29_PoisonedGetFails ==
    [][/\ (last'.op = "Factory_load" /\ last'.res = Panic)
          => \/ ~factory.poisoned /\ factory'.poisoned
             \/ ~factory.dev_poisoned /\ factory'.dev_poisoned
       /\ factory.poisoned => factory'.poisoned
       /\ (last'.op = "Factory_get" /\ factory.poisoned)
          => IF /\ development
                /\ ~factory.dev_poisoned
                /\ factory.dev_configurations[last'.name] # 0
             THEN /\ last'.res = Ok
                  /\ last'.handle = factory.dev_configurations[last'.name]
             ELSE /\ last'.res = Err("Other", "configurations got poisoned")
                  /\ last'.handle = 0
      ]_vars

\* The production scan registered "diesel" and then panicked; Factory.get
\* of that name returned the error of the poisoned lock.
C29_Witness ==
    /\ last.op = "Factory_get"
    /\ last.name = "diesel"
    /\ factory.poisoned
    /\ factory.configurations["diesel"] # 0
    /\ last.res = Err("Other", "configurations got poisoned")

\* C30: the conversion of a YAML mapping with a key that is not a string
\* panics (unimplemented) rather than coerce or drop the key, so a load, and
\* the load of a get, of a Configuration that is not loaded over such a file
\* does not return (neither Ok nor an error) and stores nothing.
C30_NonStringKeyPanics ==
    /\ Value_from_yaml(serde_yaml_from_str("yaml_intkey").tree).panic
    /\ (/\ last.op \in {"load", "get"}
        /\ ~last.before.some
        /\ NonStringKey)
       => /\ last.res = Panic
          /\ ~LastCell.conf.some
          /\ last.reads = 1

\* a load of a YAML file whose mapping has an integer key panicked
C30_Witness ==
    /\ last.op = "load"
    /\ ~last.before.some
    /\ NonStringKey
    /\ last.res = Panic
    /\ ~LastCell.conf.some

\* Every Object in v has its keys in strictly ascending order (hence
\* unique).
RECURSIVE Ascending(_)
Ascending(v) ==
    /\ v.t = "Object" =>
          \A i \in 1..(Len(v.keys) - 1) : KeyLess(v.keys[i], v.keys[i + 1])
    /\ \A i \in 1..Len(v.kids) : Ascending(v.kids[i])

\* C31: the conversions of the JSON and of the YAML parse tree of one
\* document, whatever the orders their maps iterate in, return equal
\* Values, in which every Object has unique keys in ascending order and
\* holds the entries of the source.
C31_ObjectsSortedAndEqual ==
    last.op = "from_tree"
    => /\ ~last.rets[1].panic
       /\ ~last.rets[2].panic
       /\ last.rets[1].val = last.rets[2].val
       /\ Ascending(last.rets[1].val)
       /\ Ascending(last.rets[2].val)
       /\ last.rets[1].val.t = "Object"
       /\ {last.rets[1].val.keys[i] : i \in 1..Len(last.rets[1].val.keys)}
            = {last.args[1].keys[i] : i \in 1..Len(last.args[1].keys)}
       /\ \A i \in 1..Len(last.args[1].keys) :
             Value_get(last.rets[1].val, StrIndex(last.args[1].keys[i]))
               = Some(Value_from_json(last.args[1].kids[i]).val)

\* the two trees were converted, the JSON one iterating in descending key
\* order at both levels and the YAML one in another order
C31_Witness ==
    /\ last.op = "from_tree"
    /\ last.args[1].keys = <<"parameters", "limit_id", "diesel">>
    /\ last.args[1].kids[1].keys = <<"limit_id", "env(DATABASE_URL)">>
    /\ last.args[2].keys = <<YStr("limit_id"), YStr("parameters"), YStr("diesel")>>
    /\ last.rets[1].val.keys = <<"diesel", "limit_id", "parameters">>
    /\ last.rets[1].val = last.rets[2].val

\* The locks are held in the order registry, path, cache, and the path lock
\* only for reading.
LockOrder(held) ==
    LET rank(l) == CASE l = "registry" -> 1 [] l = "path" -> 2 [] OTHER -> 3
    IN /\ \A i, j \in 1..Len(held) :
            i < j => rank(held[i].lock) < rank(held[j].lock)
       /\ \A i \in 1..Len(held) :
            held[i].lock = "path" => held[i].mode = "read"

RegisteredCells ==
    ({factory.configurations[n] : n \in Names}
        \cup {factory.dev_configurations[n] : n \in Names}) \ {0}

\* C33: all clones of a Configuration share one cache and one path.  An
\* is_loaded that follows a successful load on the same Configuration
\* answers true; the handle Factory.get returns is the Configuration the
\* registry holds under the name (the development one first in a
\* development build), whose cache and path the call leaves as they are,
\* so that gets of one name over an unchanged registry return the same
\* handle; and is_loaded through a handle of a registered Configuration
\* answers true, the load having been made by the scan.
C33_ClonesShareCache ==
    [][/\ (/\ last.op = "load"
           /\ last.res.st = "ok"
           /\ last'.op = "is_loaded"
           /\ last'.h = last.h) => (last'.res.st = "ok" /\ last'.flag)
       /\ (last'.op = "Factory_get" /\ last'.res.st = "ok") =>
             LET k == last'.handle
                 dev == factory.dev_configurations[last'.name]
             IN /\ k = IF development /\ ~factory.dev_poisoned /\ dev # 0
                       THEN dev
                       ELSE factory.configurations[last'.name]
                /\ k \in 1..Len(cells)
                /\ Len(cells') = Len(cells)
                /\ cells'[k].path = cells[k].path
                /\ cells'[k].conf = cells[k].conf
                /\ cells'[k].held
                /\ factory' = factory
       /\ (last'.op = "is_loaded" /\ last'.h \in RegisteredCells) =>
             (last'.res.st = "ok" /\ last'.flag)]_vars

\* is_loaded has answered true through a handle that Factory.get returned:
\* the Configuration is registered, and the caller holds a handle to it.
C33_Witness ==
    /\ last.op = "is_loaded"
    /\ last.flag
    /\ last.h \in RegisteredCells
    /\ cells[last.h].held

\* The failures of load that come from the extension of the path.
ExtensionFailure(res) ==
    /\ res.st = "err"
    /\ \/ res = Err("MissingValue", "no extension available")
       \/ res.kind = "FormatError"
       \/ res.kind = "UnimplementedFormat"

\* The failures of a turn of a scan that the claim names: the file could
\* not be read, it could not be parsed, or its stem is registered already.
NamedScanFailure(res, p) ==
    /\ res.st = "err"
    /\ \/ /\ res.kind = "MissingValue"
          /\ res.desc \in {"entity not found", "other os error",
                           "stream did not contain valid UTF-8"}
       \/ res \in {Err("Other", "JSON error"), Err("Other", "YAML error")}
       \/ res = Err("Other", "a configuration already exists for '"
                               \o PathInfo(p).stem \o "'")

\* Thread t takes the turn of its scan at a file is_file_handled accepts,
\* and the turn ends the scan.
ScanFailsOnHandled(t) ==
    /\ threads[t].pc = "scan"
    /\ threads[t].entries # <<>>
    /\ is_file_handled(Head(threads[t].entries), files)
    /\ threads'[t] # threads[t]
    /\ threads'[t].pc = "-"

\* Thread t reads and parses the file of its Configuration, which
\* is_file_handled accepts, and the load fails.
LoadFailsOnHandled(t) ==
    /\ threads[t].pc = "read"
    /\ is_file_handled(cells[threads[t].h].path, files)
    /\ threads'[t] # threads[t]
    /\ threads'[t].pc # "lock"

\* C34 as stated: a load of a path is_file_handled accepts never fails on
\* the extension, and a scan fails on such a file only because the file
\* could not be read or parsed or because its stem is registered already.
C34_OnlyNamedFailures ==
    [][\A t \in 1..MaxThreads :
          /\ LoadFailsOnHandled(t) => ~ExtensionFailure(threads'[t].res)
          /\ ScanFailsOnHandled(t) =>
                NamedScanFailure(threads'[t].res, Head(threads[t].entries))
      ]_vars

\* C34: a load of a path is_file_handled accepts never fails on the
\* extension (no "no extension available", FormatError or
\* UnimplementedFormat), and a scan fails on such a file only because the
\* file could not be read or parsed, because its stem is registered
\* already, because its stem is not valid text ("invalid file name"), or
\* by the panic of the conversion.
C34_FilterAndLoaderAgree ==
    [][\A t \in 1..MaxThreads :
          /\ LoadFailsOnHandled(t) => ~ExtensionFailure(threads'[t].res)
          /\ ScanFailsOnHandled(t) =>
                /\ ~ExtensionFailure(threads'[t].res)
                /\ \/ NamedScanFailure(threads'[t].res,
                                       Head(threads[t].entries))
                   \/ threads'[t].res = Err("Other", "invalid file name")
                   \/ threads'[t].res.st = "panic"
      ]_vars

\* A scan has ended at a file with a handled extension whose stem is not
\* valid text.
C34_Witness ==
    \E t \in 1..MaxThreads :
       /\ threads[t].op = "Factory_load"
       /\ threads[t].pc = "-"
       /\ threads[t].res = Err("Other", "invalid file name")
       /\ is_file_handled("config/b?d.json", files)

=============================================================================
